---- MODULE Spec2Model ----
(***************************************************************************)
(* llm-lae: extraction of structured values from CT pulmonary-angiography  *)
(* reports.  The module models the rules engine (RulesExtractor), the      *)
(* clot-burden scorer (calc_cbs_score) and the export of the LLM results.  *)
(*                                                                         *)
(* Text.  A Python str is a sequence of symbols.  A symbol is one          *)
(* character ("1", ",", ":", " ", "\n" ...) or stands for a fixed run of   *)
(* characters that the code only ever treats as a whole ("Mittellappen",   *)
(* "Total okkludiert").  No run of symbols used here spells the same       *)
(* characters as another run, so equality, `in`, split and strip on        *)
(* symbol sequences agree with the same operations on characters.          *)
(* The character U+2265 is written ">=" and U+00E4 is written "ae".        *)
(*                                                                         *)
(* Values.  A Python value is a record tagged with its type:               *)
(*   [type |-> "NoneType"], [type |-> "str", s |-> symbols],               *)
(*   [type |-> "bool", b |-> ...], [type |-> "int", n |-> ...],            *)
(*   [type |-> "float", num |-> ..., den |-> ...]  (num/den, den a power   *)
(*   of ten, lowest terms of that form), and an enum member                *)
(*   [type |-> <class>, name |-> <member>].                                *)
(***************************************************************************)
EXTENDS Integers, Sequences, FiniteSets, TLC

VARIABLES
    reports,                \* RulesExtractor.reports: list[Report]
    results,                \* extract_from_reports: results (list[RulesResult])
    input_values_file,      \* the CSV written by export_extracted_input_values
    evaluated_values_file,  \* the CSV written by export_extracted_evaluated_values
    pc,                     \* position in RulesExtractor.extract / LlmExtractor
    llm_results,            \* list[LlmResult] handed to export_extracted_data
    llm_calls,              \* the number of completions requested from the client
    extracted_data_file,    \* the CSV written by export_extracted_data
    validations,            \* validate_reports: validations (dict, in insertion order)
    validations_file,       \* the CSV written by export_validations
    validated,              \* validate_reports: the number of reports the loop has taken
    df,                     \* main: the rows read from REPORTS_FILE
    args,                   \* main: the parsed --limit and --study-id
    analyzer_extracted_data_file  \* the CSV written by DataAnalyzer.export_extracted_data

vars == <<reports, results, input_values_file, evaluated_values_file, pc,
          llm_results, llm_calls, extracted_data_file, validations, validations_file,
          validated, df, args, analyzer_extracted_data_file>>

rulesVars == <<reports, results, input_values_file, evaluated_values_file>>
llmVars == <<llm_results, llm_calls, extracted_data_file>>
validatorVars == <<validations, validations_file, validated>>
mainVars == <<df, args>>
analyzerVars == <<analyzer_extracted_data_file>>

-----------------------------------------------------------------------------
(* Python values *)

None == [type |-> "NoneType"]
PyStr(s) == [type |-> "str", s |-> s]
PyBool(b) == [type |-> "bool", b |-> b]
PyInt(n) == [type |-> "int", n |-> n]
PyList(items) == [type |-> "list", items |-> items]
Member(class, name) == [type |-> class, name |-> name]

\* A file that has not been written.
NotWritten == [type |-> "NotWritten"]

\* A CSV file written from the list of rows `items`.
Csv(items) == [type |-> "csv", rows |-> items]

-----------------------------------------------------------------------------
(* Enumerations *)

MainBranchOcclusion == {Member("MainBranchOcclusion", n) : n \in {"NONE", "TOTAL", "PARTIAL"}}

LobeOcclusion ==
    {Member("LobeOcclusion", n) : n \in {"NONE", "TOTAL", "PARTIAL", "SEGMENTAL", "SUBSEGMENTAL"}}

LaePresence == {Member("LaePresence", n) : n \in {"NOT_ASSESSABLE", "SUSPECTED", "NO", "YES"}}

PerfusionDeficit == {Member("PerfusionDeficit", n) : n \in {"NONE", "NO_25", "LT_25", "GE_25"}}

RightHeartQuotient == {Member("RightHeartQuotient", n) : n \in {"NONE", "LT_1", "GE_1"}}

ErrorCode == {Member("ErrorCode", n) : n \in {"MISSING_FIELD", "INVALID_VALUE"}}

MISSING_FIELD == Member("ErrorCode", "MISSING_FIELD")
INVALID_VALUE == Member("ErrorCode", "INVALID_VALUE")

-----------------------------------------------------------------------------
(* str operations *)

Whitespace == {" ", "\t", "\n", "\r"}

Digit == {"0", "1", "2", "3", "4", "5", "6", "7", "8", "9"}

DigitValue(d) ==
    CASE d = "0" -> 0 [] d = "1" -> 1 [] d = "2" -> 2 [] d = "3" -> 3 [] d = "4" -> 4
      [] d = "5" -> 5 [] d = "6" -> 6 [] d = "7" -> 7 [] d = "8" -> 8 [] d = "9" -> 9

\* pat in s
Contains(s, pat) ==
    \E i \in 0..(Len(s) - Len(pat)) : SubSeq(s, i + 1, i + Len(pat)) = pat

\* s.split(sep) for a one-character separator: the list of the segments.
\* SplitFrom: the segments of s from position start on, scanned up to position i.
RECURSIVE SplitFrom(_, _, _, _)
SplitFrom(s, sep, start, i) ==
    IF i > Len(s) THEN <<SubSeq(s, start, Len(s))>>
    ELSE IF s[i] = sep THEN <<SubSeq(s, start, i - 1)>> \o SplitFrom(s, sep, i + 1, i + 1)
    ELSE SplitFrom(s, sep, start, i + 1)

Split(s, sep) == SplitFrom(s, sep, 1, 1)

\* s.strip()
RECURSIVE LStrip(_)
LStrip(s) == IF s # <<>> /\ Head(s) \in Whitespace THEN LStrip(Tail(s)) ELSE s

RECURSIVE RStrip(_)
RStrip(s) ==
    IF s # <<>> /\ s[Len(s)] \in Whitespace THEN RStrip(SubSeq(s, 1, Len(s) - 1)) ELSE s

Strip(s) == RStrip(LStrip(s))

\* s.replace(a, b) for one-character a and b
Replace(s, a, b) == [i \in 1..Len(s) |-> IF s[i] = a THEN b ELSE s[i]]

\* \d+
IsDigits(s) == Len(s) >= 1 /\ \A i \in 1..Len(s) : s[i] \in Digit

\* re.fullmatch(r"\d+(,\d+)?", s)
FullMatchNumber(s) ==
    \/ IsDigits(s)
    \/ \E i \in 1..Len(s) :
          /\ s[i] = ","
          /\ IsDigits(SubSeq(s, 1, i - 1))
          /\ IsDigits(SubSeq(s, i + 1, Len(s)))

\* re.fullmatch(r"\d+(,\d+)? HU", s)
FullMatchHU(s) ==
    /\ Len(s) >= 3
    /\ SubSeq(s, Len(s) - 2, Len(s)) = <<" ", "H", "U">>
    /\ FullMatchNumber(SubSeq(s, 1, Len(s) - 3))

-----------------------------------------------------------------------------
(* float *)

RECURSIVE Pow10(_)
Pow10(k) == IF k = 0 THEN 1 ELSE 10 * Pow10(k - 1)

RECURSIVE DigitsValue(_)
DigitsValue(s) ==
    IF s = <<>> THEN 0 ELSE 10 * DigitsValue(SubSeq(s, 1, Len(s) - 1)) + DigitValue(s[Len(s)])

\* The float with value num/den (den a power of ten), in lowest terms of that form.
RECURSIVE Float(_, _)
Float(num, den) ==
    IF den > 1 /\ num % 10 = 0 THEN Float(num \div 10, den \div 10)
    ELSE [type |-> "float", num |-> num, den |-> den]

\* float(s) for s matching \d+(\.\d+)?
ParseFloat(s) ==
    LET parts == Split(s, ".")
        frac == IF Len(parts) > 1 THEN parts[2] ELSE <<>>
    IN  Float(DigitsValue(parts[1] \o frac), Pow10(Len(frac)))

\* Mutant: the upper bound is excluded.
BetweenUpperExclusive(a, x, b) == a * x.den <= x.num /\ x.num < b * x.den

\* a <= x <= b for integers a, b and a float x
Between(a, x, b) == a * x.den <= x.num /\ x.num <= b * x.den

\* Mutant: a tie goes up.
RoundHalfUp(x) == (2 * x.num + x.den) \div (2 * x.den)

\* round(x) for a float x >= 0: the nearest integer, a tie going to the even one.
Round(x) ==
    LET q == x.num \div x.den
        r == x.num % x.den
    IN  IF 2 * r > x.den THEN q + 1
        ELSE IF 2 * r < x.den THEN q
        ELSE IF q % 2 = 0 THEN q ELSE q + 1

-----------------------------------------------------------------------------
(* RulesExtractor: the field locator *)

\* report.split("\n"): the first line that contains f"{field}:", its text after
\* the last ":" stripped; None when no line contains it.
\* Mutant: the last line that contains the label wins.
RECURSIVE LastMatch(_, _)
LastMatch(lines, pat) ==
    IF lines = <<>> THEN None
    ELSE IF Contains(lines[Len(lines)], pat)
         THEN LET parts == Split(lines[Len(lines)], ":")
              IN  PyStr(Strip(parts[Len(parts)]))
         ELSE LastMatch(SubSeq(lines, 1, Len(lines) - 1), pat)

RECURSIVE FirstMatch(_, _)
FirstMatch(lines, pat) ==
    IF lines = <<>> THEN None
    ELSE IF Contains(Head(lines), pat)
         THEN LET parts == Split(Head(lines), ":")
              IN  PyStr(Strip(parts[Len(parts)]))
         ELSE FirstMatch(Tail(lines), pat)

get_field_value(report, field) == FirstMatch(Split(report, "\n"), field \o <<":">>)

-----------------------------------------------------------------------------
(* RulesExtractor: the labels of the 14 fields *)

Fields ==
    {"ecg_sync", "density_tr_pulmonalis", "artefact_score", "lae_presence",
     "lae_main_branch_right", "lae_upper_lobe_right", "lae_lower_lobe_right",
     "lae_middle_lobe_right", "lae_main_branch_left", "lae_upper_lobe_left",
     "lae_lower_lobe_left", "clot_burden_score", "perfusion_deficit", "rv_lv_quotient"}

MainBranchFields == {"lae_main_branch_right", "lae_main_branch_left"}

LobeFields ==
    {"lae_upper_lobe_right", "lae_lower_lobe_right", "lae_middle_lobe_right",
     "lae_upper_lobe_left", "lae_lower_lobe_left"}

OcclusionFields == MainBranchFields \cup LobeFields

Label(f) ==
    CASE f = "ecg_sync" -> <<"EKG-Synchronisation">>
      [] f = "density_tr_pulmonalis" -> <<"CT-Dichte Truncus pulmonalis (Standard)">>
      [] f = "artefact_score" -> <<"Artefakt-Score (0-5)">>
      [] f = "lae_presence" -> <<"Nachweis einer Lungenarterienembolie">>
      [] f = "lae_main_branch_right" -> <<"Rechts", " ", "Pulmonalhauptarterie">>
      [] f = "lae_upper_lobe_right" -> <<"Rechts", " ", "Oberlappen">>
      [] f = "lae_lower_lobe_right" -> <<"Rechts", " ", "Unterlappen">>
      [] f = "lae_middle_lobe_right" -> <<"Mittellappen">>
      [] f = "lae_main_branch_left" -> <<"Links", " ", "Pulmonalhauptarterie">>
      [] f = "lae_upper_lobe_left" -> <<"Links", " ", "Oberlappen">>
      [] f = "lae_lower_lobe_left" -> <<"Links", " ", "Unterlappen">>
      [] f = "clot_burden_score" ->
            <<"Heidelberg Clot Burden Score (CBS, PMID", ":", " ", "34581626)">>
      [] f = "perfusion_deficit" -> <<"Perfusionsausfaelle (DE-CT)">>
      [] f = "rv_lv_quotient" -> <<"RV/LV-Quotient">>

-----------------------------------------------------------------------------
(* RulesExtractor: the classifiers.  Each returns the pair <<iv, ev>>. *)

Neutral == {PyStr(<<>>), PyStr(<<"-">>)}

\* Mutant: a neutral raw text is recorded as "".
extract_ecg_sync_normalises_neutral(report) ==
    LET iv == get_field_value(report, Label("ecg_sync"))
    IN  IF iv = None THEN <<PyStr(<<>>), MISSING_FIELD>>
        ELSE IF iv = PyStr(<<"Ja">>) THEN <<iv, PyBool(TRUE)>>
        ELSE IF iv \in {PyStr(<<"Nein">>), PyStr(<<>>), PyStr(<<"-">>)}
             THEN <<IF iv \in Neutral THEN PyStr(<<>>) ELSE iv, PyBool(FALSE)>>
        ELSE <<iv, INVALID_VALUE>>

extract_ecg_sync(report) ==
    LET iv == get_field_value(report, Label("ecg_sync"))
    IN  IF iv = None THEN <<PyStr(<<>>), MISSING_FIELD>>
        ELSE IF iv = PyStr(<<"Ja">>) THEN <<iv, PyBool(TRUE)>>
        ELSE IF iv \in {PyStr(<<"Nein">>), PyStr(<<>>), PyStr(<<"-">>)} THEN <<iv, PyBool(FALSE)>>
        ELSE <<iv, INVALID_VALUE>>

extract_density_tr_pulmonalis(report) ==
    LET iv == get_field_value(report, Label("density_tr_pulmonalis"))
    IN  IF iv = None THEN <<PyStr(<<>>), MISSING_FIELD>>
        ELSE IF iv \in Neutral THEN <<iv, None>>
        ELSE IF FullMatchHU(iv.s)
             THEN <<iv, PyInt(Round(ParseFloat(Replace(Split(iv.s, " ")[1], ",", "."))))>>
        ELSE <<iv, INVALID_VALUE>>

ArtefactLabels ==
    {PyStr(<<"0", " ", "(keine Artefakte)">>), PyStr(<<"1">>), PyStr(<<"2">>), PyStr(<<"3">>),
     PyStr(<<"4">>), PyStr(<<"5", " ", "(nicht beurteilbar)">>)}

\* Mutant: the label itself is returned, not its leading digit as an int.
extract_artefact_score_returns_label(report) ==
    LET iv == get_field_value(report, Label("artefact_score"))
    IN  IF iv = None THEN <<PyStr(<<>>), MISSING_FIELD>>
        ELSE IF iv \in Neutral THEN <<iv, None>>
        ELSE IF iv \in ArtefactLabels THEN <<iv, iv>>
        ELSE <<iv, INVALID_VALUE>>

extract_artefact_score(report) ==
    LET iv == get_field_value(report, Label("artefact_score"))
    IN  IF iv = None THEN <<PyStr(<<>>), MISSING_FIELD>>
        ELSE IF iv \in Neutral THEN <<iv, None>>
        ELSE IF iv \in ArtefactLabels THEN <<iv, PyInt(DigitValue(iv.s[1]))>>
        ELSE <<iv, INVALID_VALUE>>

\* Mutant: an empty or "-" raw text counts as a missing field.
extract_lae_presence_with_neutral(report) ==
    LET iv == get_field_value(report, Label("lae_presence"))
    IN  IF iv = None \/ iv \in Neutral THEN <<IF iv = None THEN PyStr(<<>>) ELSE iv, MISSING_FIELD>>
        ELSE IF iv = PyStr(<<"Nein">>) THEN <<iv, Member("LaePresence", "NO")>>
        ELSE IF iv = PyStr(<<"Ja">>) THEN <<iv, Member("LaePresence", "YES")>>
        ELSE IF iv = PyStr(<<"Verdacht auf", " ", "Lungenarterienembolie">>)
             THEN <<iv, Member("LaePresence", "SUSPECTED")>>
        ELSE IF iv = PyStr(<<"Nicht beurteilbar">>)
             THEN <<iv, Member("LaePresence", "NOT_ASSESSABLE")>>
        ELSE <<iv, INVALID_VALUE>>

\* Mutant: the short literal of the validator, "Verdacht auf", is the accepted one.
extract_lae_presence_short_literal(report) ==
    LET iv == get_field_value(report, Label("lae_presence"))
    IN  IF iv = None THEN <<PyStr(<<>>), MISSING_FIELD>>
        ELSE IF iv = PyStr(<<"Nein">>) THEN <<iv, Member("LaePresence", "NO")>>
        ELSE IF iv = PyStr(<<"Ja">>) THEN <<iv, Member("LaePresence", "YES")>>
        ELSE IF iv = PyStr(<<"Verdacht auf">>) THEN <<iv, Member("LaePresence", "SUSPECTED")>>
        ELSE IF iv = PyStr(<<"Nicht beurteilbar">>)
             THEN <<iv, Member("LaePresence", "NOT_ASSESSABLE")>>
        ELSE <<iv, INVALID_VALUE>>

extract_lae_presence(report) ==
    LET iv == get_field_value(report, Label("lae_presence"))
    IN  IF iv = None THEN <<PyStr(<<>>), MISSING_FIELD>>
        ELSE IF iv = PyStr(<<"Nein">>) THEN <<iv, Member("LaePresence", "NO")>>
        ELSE IF iv = PyStr(<<"Ja">>) THEN <<iv, Member("LaePresence", "YES")>>
        ELSE IF iv = PyStr(<<"Verdacht auf", " ", "Lungenarterienembolie">>)
             THEN <<iv, Member("LaePresence", "SUSPECTED")>>
        ELSE IF iv = PyStr(<<"Nicht beurteilbar">>)
             THEN <<iv, Member("LaePresence", "NOT_ASSESSABLE")>>
        ELSE <<iv, INVALID_VALUE>>

extract_clot_burden_score(report) ==
    LET iv == get_field_value(report, Label("clot_burden_score"))
    IN  IF iv = None THEN <<PyStr(<<>>), MISSING_FIELD>>
        ELSE IF \/ ~FullMatchNumber(iv.s)
                \/ ~Between(0, ParseFloat(Replace(iv.s, ",", ".")), 40)
             THEN <<iv, INVALID_VALUE>>
        ELSE <<iv, ParseFloat(Replace(iv.s, ",", "."))>>

\* Mutant: "=25%" is not accepted as a synonym.
extract_perfusion_deficit_without_synonym(report) ==
    LET iv == get_field_value(report, Label("perfusion_deficit"))
    IN  IF iv = None THEN <<PyStr(<<>>), MISSING_FIELD>>
        ELSE IF iv \in Neutral THEN <<iv, None>>
        ELSE IF iv = PyStr(<<"Keine">>) THEN <<iv, Member("PerfusionDeficit", "NONE")>>
        ELSE IF iv = PyStr(<<"<25%">>) THEN <<iv, Member("PerfusionDeficit", "LT_25")>>
        ELSE IF iv = PyStr(<<">=25%">>) THEN <<iv, Member("PerfusionDeficit", "GE_25")>>
        ELSE <<iv, INVALID_VALUE>>

extract_perfusion_deficit(report) ==
    LET iv == get_field_value(report, Label("perfusion_deficit"))
    IN  IF iv = None THEN <<PyStr(<<>>), MISSING_FIELD>>
        ELSE IF iv \in Neutral THEN <<iv, None>>
        ELSE IF iv = PyStr(<<"Keine">>) THEN <<iv, Member("PerfusionDeficit", "NONE")>>
        ELSE IF iv = PyStr(<<"<25%">>) THEN <<iv, Member("PerfusionDeficit", "LT_25")>>
        ELSE IF iv \in {PyStr(<<">=25%">>), PyStr(<<"=25%">>)}
             THEN <<iv, Member("PerfusionDeficit", "GE_25")>>
        ELSE <<iv, INVALID_VALUE>>

\* Mutant: only "" is neutral, "-" is not.
extract_rv_lv_quotient_dash_invalid(report) ==
    LET iv == get_field_value(report, Label("rv_lv_quotient"))
    IN  IF iv = None THEN <<PyStr(<<>>), MISSING_FIELD>>
        ELSE IF iv = PyStr(<<>>) THEN <<iv, None>>
        ELSE IF iv = PyStr(<<"<1">>) THEN <<iv, Member("RightHeartQuotient", "LT_1")>>
        ELSE IF iv \in {PyStr(<<">=1">>), PyStr(<<"=1">>)}
             THEN <<iv, Member("RightHeartQuotient", "GE_1")>>
        ELSE <<iv, INVALID_VALUE>>

extract_rv_lv_quotient(report) ==
    LET iv == get_field_value(report, Label("rv_lv_quotient"))
    IN  IF iv = None THEN <<PyStr(<<>>), MISSING_FIELD>>
        ELSE IF iv \in Neutral THEN <<iv, None>>
        ELSE IF iv = PyStr(<<"<1">>) THEN <<iv, Member("RightHeartQuotient", "LT_1")>>
        ELSE IF iv \in {PyStr(<<">=1">>), PyStr(<<"=1">>)}
             THEN <<iv, Member("RightHeartQuotient", "GE_1")>>
        ELSE <<iv, INVALID_VALUE>>

\* Mutant: the lobe phrases for a total and a partial occlusion are accepted too.
extract_main_branch_occlusion_with_lobe_phrases(report, branch) ==
    LET iv == get_field_value(report, branch)
    IN  IF iv = None THEN <<PyStr(<<>>), MISSING_FIELD>>
        ELSE IF iv \in Neutral THEN <<iv, Member("MainBranchOcclusion", "NONE")>>
        ELSE IF iv \in {PyStr(<<"Total okkludiert">>), PyStr(<<"Lappenarterie total okkludiert">>)}
             THEN <<iv, Member("MainBranchOcclusion", "TOTAL")>>
        ELSE IF iv \in {PyStr(<<"Partiell okkludiert">>),
                        PyStr(<<"Lappenarterie partiell okkludiert">>)}
             THEN <<iv, Member("MainBranchOcclusion", "PARTIAL")>>
        ELSE <<iv, INVALID_VALUE>>

extract_main_branch_occlusion(report, branch) ==
    LET iv == get_field_value(report, branch)
    IN  IF iv = None THEN <<PyStr(<<>>), MISSING_FIELD>>
        ELSE IF iv \in Neutral THEN <<iv, Member("MainBranchOcclusion", "NONE")>>
        ELSE IF iv = PyStr(<<"Total okkludiert">>)
             THEN <<iv, Member("MainBranchOcclusion", "TOTAL")>>
        ELSE IF iv = PyStr(<<"Partiell okkludiert">>)
             THEN <<iv, Member("MainBranchOcclusion", "PARTIAL")>>
        ELSE <<iv, INVALID_VALUE>>

\* Mutant: only "-" is neutral, "" is not.
extract_lobe_occlusion_empty_invalid(report, lobe) ==
    LET iv == get_field_value(report, lobe)
    IN  IF iv = None THEN <<PyStr(<<>>), MISSING_FIELD>>
        ELSE IF iv = PyStr(<<"-">>) THEN <<iv, Member("LobeOcclusion", "NONE")>>
        ELSE IF iv = PyStr(<<"Lappenarterie total okkludiert">>)
             THEN <<iv, Member("LobeOcclusion", "TOTAL")>>
        ELSE IF iv = PyStr(<<"Lappenarterie partiell okkludiert">>)
             THEN <<iv, Member("LobeOcclusion", "PARTIAL")>>
        ELSE IF iv = PyStr(<<"Segmentarterie(n)">>)
             THEN <<iv, Member("LobeOcclusion", "SEGMENTAL")>>
        ELSE IF iv = PyStr(<<"Subsegmentarterie(n)">>)
             THEN <<iv, Member("LobeOcclusion", "SUBSEGMENTAL")>>
        ELSE <<iv, INVALID_VALUE>>

extract_lobe_occlusion(report, lobe) ==
    LET iv == get_field_value(report, lobe)
    IN  IF iv = None THEN <<PyStr(<<>>), MISSING_FIELD>>
        ELSE IF iv \in Neutral THEN <<iv, Member("LobeOcclusion", "NONE")>>
        ELSE IF iv = PyStr(<<"Lappenarterie total okkludiert">>)
             THEN <<iv, Member("LobeOcclusion", "TOTAL")>>
        ELSE IF iv = PyStr(<<"Lappenarterie partiell okkludiert">>)
             THEN <<iv, Member("LobeOcclusion", "PARTIAL")>>
        ELSE IF iv = PyStr(<<"Segmentarterie(n)">>)
             THEN <<iv, Member("LobeOcclusion", "SEGMENTAL")>>
        ELSE IF iv = PyStr(<<"Subsegmentarterie(n)">>)
             THEN <<iv, Member("LobeOcclusion", "SUBSEGMENTAL")>>
        ELSE <<iv, INVALID_VALUE>>

\* The 14 classifier calls of extract_from_report, <<iv, ev>> of each field.
ClassifyAll(report) ==
    [ecg_sync |-> extract_ecg_sync(report),
     density_tr_pulmonalis |-> extract_density_tr_pulmonalis(report),
     artefact_score |-> extract_artefact_score(report),
     lae_presence |-> extract_lae_presence(report),
     lae_main_branch_right |->
        extract_main_branch_occlusion(report, <<"Rechts", " ", "Pulmonalhauptarterie">>),
     lae_upper_lobe_right |-> extract_lobe_occlusion(report, <<"Rechts", " ", "Oberlappen">>),
     lae_lower_lobe_right |-> extract_lobe_occlusion(report, <<"Rechts", " ", "Unterlappen">>),
     lae_middle_lobe_right |-> extract_lobe_occlusion(report, <<"Mittellappen">>),
     lae_main_branch_left |->
        extract_main_branch_occlusion(report, <<"Links", " ", "Pulmonalhauptarterie">>),
     lae_upper_lobe_left |-> extract_lobe_occlusion(report, <<"Links", " ", "Oberlappen">>),
     lae_lower_lobe_left |-> extract_lobe_occlusion(report, <<"Links", " ", "Unterlappen">>),
     clot_burden_score |-> extract_clot_burden_score(report),
     perfusion_deficit |-> extract_perfusion_deficit(report),
     rv_lv_quotient |-> extract_rv_lv_quotient(report)]

\* The NONE variant the consistency rule assigns to occlusion field f.
NoneVariant(f) ==
    IF f \in MainBranchFields THEN Member("MainBranchOcclusion", "NONE")
    ELSE Member("LobeOcclusion", "NONE")

\* Mutant: any() in place of all().
AnyOcclusionMissing(ev) == \E f \in OcclusionFields : ev[f] = MISSING_FIELD

\* If all main branches and lobes are missing then this is not an error
\* but means that nothing is occluded.
AllOcclusionsMissing(ev) == \A f \in OcclusionFields : ev[f] = MISSING_FIELD

\* Mutant: the rewrite forgets lae_middle_lobe_right.
ConsistencyRuleForgetsMiddleLobe(ev) ==
    IF \A f \in OcclusionFields : ev[f] = MISSING_FIELD
    THEN [f \in Fields |->
             IF f \in OcclusionFields \ {"lae_middle_lobe_right"} THEN NoneVariant(f) ELSE ev[f]]
    ELSE ev

\* Mutant: the rewrite is made when every occlusion value is an ErrorCode.
ConsistencyRuleOnAnyErrorCode(ev) ==
    IF \A f \in OcclusionFields : ev[f] \in ErrorCode
    THEN [f \in Fields |-> IF f \in OcclusionFields THEN NoneVariant(f) ELSE ev[f]]
    ELSE ev

ConsistencyRule(ev) ==
    IF AllOcclusionsMissing(ev)
    THEN [f \in Fields |-> IF f \in OcclusionFields THEN NoneVariant(f) ELSE ev[f]]
    ELSE ev

\* rules_models: the annotation of each field of EvaluatedValues and InputValues.
\* The constructors validate: a value that is no instance of the annotation raises.
IsEvaluatedValue(f, v) ==
    \/ v \in ErrorCode
    \/ CASE f = "ecg_sync" -> v.type = "bool"
         [] f \in {"density_tr_pulmonalis", "artefact_score"} -> v.type = "int" \/ v = None
         [] f = "lae_presence" -> v \in LaePresence
         [] f \in MainBranchFields -> v \in MainBranchOcclusion
         [] f \in LobeFields -> v \in LobeOcclusion
         [] f = "clot_burden_score" -> v.type = "float" \/ v = None
         [] f = "perfusion_deficit" -> v \in PerfusionDeficit \/ v = None
         [] f = "rv_lv_quotient" -> v \in RightHeartQuotient \/ v = None

IsInputValue(f, v) == v.type = "str"

ValidationError == [type |-> "ValidationError"]

RulesResult(study_id, input_values, evaluated_values) ==
    [study_id |-> study_id, input_values |-> input_values, evaluated_values |-> evaluated_values]

extract_from_report(report, study_id) ==
    LET classified == ClassifyAll(report)
        input_values == [f \in Fields |-> classified[f][1]]
        evaluated_values == ConsistencyRule([f \in Fields |-> classified[f][2]])
    IN  IF /\ \A f \in Fields : IsInputValue(f, input_values[f])
           /\ \A f \in Fields : IsEvaluatedValue(f, evaluated_values[f])
        THEN RulesResult(study_id, input_values, evaluated_values)
        ELSE ValidationError

-----------------------------------------------------------------------------
(* InputValidator: the older validation of the 14 fields *)

\* input_validator.ErrorCode
ValidatorErrorCode ==
    {Member("input_validator.ErrorCode", n) : n \in {"NO_ERROR", "MISSING_FIELD", "INVALID_VALUE"}}

\* InputValidator.get_field_value, the validator's own copy of the locator.
validator_get_field_value(report, field) == FirstMatch(Split(report, "\n"), field \o <<":">>)

\* One field of validate_report: MISSING_FIELD for None, INVALID_VALUE for a
\* value that is not accepted, NO_ERROR as initialised otherwise.
FieldValidation(value, accepted) ==
    IF value = None THEN Member("input_validator.ErrorCode", "MISSING_FIELD")
    ELSE IF ~accepted THEN Member("input_validator.ErrorCode", "INVALID_VALUE")
    ELSE Member("input_validator.ErrorCode", "NO_ERROR")

ValidatedMainBranch(report, main_branch) ==
    LET value == validator_get_field_value(report, main_branch)
    IN  FieldValidation(value,
            value \in {PyStr(<<>>), PyStr(<<"-">>), PyStr(<<"Total okkludiert">>),
                       PyStr(<<"Partiell okkludiert">>)})

\* Mutant: the list of the lobe phrases lacks "Subsegmentarterie(n)".
ValidatedLobeWithoutSubsegmental(report, lobe) ==
    LET value == validator_get_field_value(report, lobe)
    IN  FieldValidation(value,
            value \in {PyStr(<<>>), PyStr(<<"-">>), PyStr(<<"Lappenarterie total okkludiert">>),
                       PyStr(<<"Lappenarterie partiell okkludiert">>),
                       PyStr(<<"Segmentarterie(n)">>)})

ValidatedLobe(report, lobe) ==
    LET value == validator_get_field_value(report, lobe)
    IN  FieldValidation(value,
            value \in {PyStr(<<>>), PyStr(<<"-">>), PyStr(<<"Lappenarterie total okkludiert">>),
                       PyStr(<<"Lappenarterie partiell okkludiert">>),
                       PyStr(<<"Segmentarterie(n)">>), PyStr(<<"Subsegmentarterie(n)">>)})

\* The checks of validate_report before its rule for an all-missing group.
ValidateAll(report) ==
    [ecg_sync |->
        LET value == validator_get_field_value(report, <<"EKG-Synchronisation">>)
        IN  FieldValidation(value, value \in {PyStr(<<>>), PyStr(<<"Nein">>), PyStr(<<"Ja">>)}),
     density_tr_pulmonalis |->
        LET value == validator_get_field_value(report,
                                               <<"CT-Dichte Truncus pulmonalis (Standard)">>)
        IN  FieldValidation(value,
                IF value = None THEN FALSE
                ELSE ~(value # PyStr(<<"-">>) /\ ~FullMatchHU(value.s))),
     artefact_score |->
        LET value == validator_get_field_value(report, <<"Artefakt-Score (0-5)">>)
        IN  FieldValidation(value, value \in {PyStr(<<>>)} \cup ArtefactLabels),
     lae_presence |->
        LET value == validator_get_field_value(report, <<"Nachweis einer Lungenarterienembolie">>)
        IN  FieldValidation(value,
                value \in {PyStr(<<"Nein">>), PyStr(<<"Ja">>), PyStr(<<"Verdacht auf">>),
                           PyStr(<<"Nicht beurteilbar">>)}),
     clot_burden_score |->
        LET value == validator_get_field_value(report,
                        <<"Heidelberg Clot Burden Score (CBS, PMID", ":", " ", "34581626)">>)
        IN  FieldValidation(value,
                IF value = None THEN FALSE
                ELSE ~(\/ ~FullMatchNumber(value.s)
                       \/ ~Between(0, ParseFloat(Replace(value.s, ",", ".")), 40))),
     perfusion_deficit |->
        LET value == validator_get_field_value(report, <<"Perfusionsausfaelle (DE-CT)">>)
        IN  FieldValidation(value,
                value \in {PyStr(<<"-">>), PyStr(<<"Keine">>), PyStr(<<"<25%">>),
                           PyStr(<<">=25%">>), PyStr(<<"=25%">>)}),
     rv_lv_quotient |->
        LET value == validator_get_field_value(report, <<"RV/LV-Quotient">>)
        IN  FieldValidation(value,
                value \in {PyStr(<<"-">>), PyStr(<<"<1">>), PyStr(<<">=1">>), PyStr(<<"=1">>)}),
     lae_main_branch_right |->
        ValidatedMainBranch(report, <<"Rechts", " ", "Pulmonalhauptarterie">>),
     lae_main_branch_left |->
        ValidatedMainBranch(report, <<"Links", " ", "Pulmonalhauptarterie">>),
     lae_upper_lobe_right |-> ValidatedLobe(report, <<"Rechts", " ", "Oberlappen">>),
     lae_lower_lobe_right |-> ValidatedLobe(report, <<"Rechts", " ", "Unterlappen">>),
     lae_middle_lobe_right |-> ValidatedLobe(report, <<"Mittellappen">>),
     lae_upper_lobe_left |-> ValidatedLobe(report, <<"Links", " ", "Oberlappen">>),
     lae_lower_lobe_left |-> ValidatedLobe(report, <<"Links", " ", "Unterlappen">>)]

\* If all main branches and lobes where missing then this is not an error
\* and set all to NO_ERROR
validate_report(report, study_id) ==
    LET validation == ValidateAll(report)
    IN  IF /\ \A f \in MainBranchFields :
                  validation[f] = Member("input_validator.ErrorCode", "MISSING_FIELD")
           /\ \A f \in LobeFields :
                  validation[f] = Member("input_validator.ErrorCode", "MISSING_FIELD")
        THEN [f \in Fields |->
                 IF f \in OcclusionFields THEN Member("input_validator.ErrorCode", "NO_ERROR")
                 ELSE validation[f]]
        ELSE [f \in Fields |-> validation[f]]

\* Mutant: a key already present keeps its first value.
DictSetKeepingFirst(dict, key, value) ==
    IF \E k \in 1..Len(dict) : dict[k].key = key
    THEN dict
    ELSE Append(dict, [key |-> key, value |-> value])

\* validations[key] = value for a dict kept as its items in insertion order: a
\* key already present keeps its position and gets the new value.
DictSet(dict, key, value) ==
    IF \E k \in 1..Len(dict) : dict[k].key = key
    THEN [k \in 1..Len(dict) |->
             IF dict[k].key = key THEN [key |-> key, value |-> value] ELSE dict[k]]
    ELSE Append(dict, [key |-> key, value |-> value])

-----------------------------------------------------------------------------
(* utils.calc_cbs_score *)

\* a + b for floats
FloatAdd(a, b) == Float(a.num * b.den + b.num * a.den, a.den * b.den)

\* Mutant: a totally occluded lobe scores like a main branch (20 points).
LobeScoreTotalAsMainBranch(value, total, partial, segmental, subsegmental) ==
    IF value = Member("LobeOcclusion", "TOTAL") THEN Float(20, 1)
    ELSE IF value = Member("LobeOcclusion", "PARTIAL") THEN Float(partial, 10)
    ELSE IF value = Member("LobeOcclusion", "SEGMENTAL") THEN Float(segmental, 10)
    ELSE IF value = Member("LobeOcclusion", "SUBSEGMENTAL") THEN Float(subsegmental, 10)
    ELSE Float(0, 1)

\* One lobe's if/elif chain: the points for the four occluded variants in
\* tenths of a point, nothing added for any other value.
LobeScore(value, total, partial, segmental, subsegmental) ==
    IF value = Member("LobeOcclusion", "TOTAL") THEN Float(total, 10)
    ELSE IF value = Member("LobeOcclusion", "PARTIAL") THEN Float(partial, 10)
    ELSE IF value = Member("LobeOcclusion", "SEGMENTAL") THEN Float(segmental, 10)
    ELSE IF value = Member("LobeOcclusion", "SUBSEGMENTAL") THEN Float(subsegmental, 10)
    ELSE Float(0, 1)

\* Mutant: the lobes of the left lung are scored whatever its main branch is.
LeftLungAlwaysScoresLobes(findings) ==
    FloatAdd(IF findings.lae_main_branch_left = Member("MainBranchOcclusion", "TOTAL")
                 THEN Float(20, 1)
             ELSE IF findings.lae_main_branch_left = Member("MainBranchOcclusion", "PARTIAL")
                 THEN Float(10, 1)
             ELSE Float(0, 1),
             FloatAdd(LobeScore(findings.lae_upper_lobe_left, 100, 50, 25, 10),
                      LobeScore(findings.lae_lower_lobe_left, 100, 50, 25, 10)))

\* Left lung
LeftLung(findings) ==
    IF findings.lae_main_branch_left = Member("MainBranchOcclusion", "TOTAL") THEN Float(20, 1)
    ELSE IF findings.lae_main_branch_left = Member("MainBranchOcclusion", "PARTIAL")
         THEN Float(10, 1)
    ELSE FloatAdd(LobeScore(findings.lae_upper_lobe_left, 100, 50, 25, 10),
                  LobeScore(findings.lae_lower_lobe_left, 100, 50, 25, 10))

\* Mutant: the right middle lobe scored with the points of the right upper lobe.
RightLungMiddleAsUpper(findings) ==
    IF findings.lae_main_branch_right = Member("MainBranchOcclusion", "TOTAL") THEN Float(20, 1)
    ELSE IF findings.lae_main_branch_right = Member("MainBranchOcclusion", "PARTIAL")
         THEN Float(10, 1)
    ELSE FloatAdd(FloatAdd(LobeScore(findings.lae_upper_lobe_right, 60, 30, 15, 10),
                           LobeScore(findings.lae_middle_lobe_right, 60, 30, 15, 10)),
                  LobeScore(findings.lae_lower_lobe_right, 100, 50, 25, 10))

\* Right lung
RightLung(findings) ==
    IF findings.lae_main_branch_right = Member("MainBranchOcclusion", "TOTAL") THEN Float(20, 1)
    ELSE IF findings.lae_main_branch_right = Member("MainBranchOcclusion", "PARTIAL")
         THEN Float(10, 1)
    ELSE FloatAdd(FloatAdd(LobeScore(findings.lae_upper_lobe_right, 60, 30, 15, 10),
                           LobeScore(findings.lae_middle_lobe_right, 40, 20, 10, 5)),
                  LobeScore(findings.lae_lower_lobe_right, 100, 50, 25, 10))

\* Mutant: the score returned in whole points, the fraction dropped.
calc_cbs_score_whole_points(findings) ==
    LET score == FloatAdd(FloatAdd(Float(0, 1), LeftLung(findings)), RightLung(findings))
    IN  Float(score.num \div score.den, 1)

calc_cbs_score(findings) == FloatAdd(FloatAdd(Float(0, 1), LeftLung(findings)), RightLung(findings))

\* The occlusion fields of Findings, the ones calc_cbs_score reads.
Findings ==
    {f \in [OcclusionFields -> MainBranchOcclusion \cup LobeOcclusion] :
        /\ \A m \in MainBranchFields : f[m] \in MainBranchOcclusion
        /\ \A l \in LobeFields : f[l] \in LobeOcclusion}

-----------------------------------------------------------------------------
(* Rows handed to pandas.  A row maps a column to the Python value of the  *)
(* cell; the text pandas writes for a cell is not modelled.                *)

\* d | e for dicts: the keys of both, e's value where both have the key.
Merge(d, e) ==
    [k \in DOMAIN d \cup DOMAIN e |-> IF k \in DOMAIN e THEN e[k] ELSE d[k]]

StudyIdItem(study_id) == [k \in {"study_id"} |-> study_id]

InputValuesItem(result) == Merge(StudyIdItem(result.study_id), result.input_values)

\* Mutant: the item also carries the score computed from error-free occlusion fields.
EvaluatedValuesItemWithScore(result) ==
    Merge(Merge(StudyIdItem(result.study_id), result.evaluated_values),
          IF \A f \in OcclusionFields : result.evaluated_values[f] \notin ErrorCode
          THEN [k \in {"clot_burden_score_calc"} |-> calc_cbs_score(result.evaluated_values)]
          ELSE [k \in {} |-> None])

EvaluatedValuesItem(result) == Merge(StudyIdItem(result.study_id), result.evaluated_values)

ExtractedDataItem(result) ==
    Merge(Merge(StudyIdItem(result.study_id), result.findings),
          [k \in {"clot_burden_score_calc"} |-> calc_cbs_score(result.findings)])

\* export_validations: item
ValidationItem(study_id, validation) == Merge(StudyIdItem(study_id), validation)

-----------------------------------------------------------------------------
(* Reports *)

\* One template line, "<Label>: <value>".
Line(label, raw) == label \o <<":", " ">> \o raw

\* "\n".join(lines)
RECURSIVE JoinLines(_)
JoinLines(lines) ==
    IF lines = <<>> THEN <<>>
    ELSE IF Len(lines) = 1 THEN lines[1]
    ELSE lines[1] \o <<"\n">> \o JoinLines(Tail(lines))

Report(study_id, report_body) == [study_id |-> study_id, report_body |-> report_body]

\* The occlusion labels in the order of the template.
OcclusionOrder ==
    <<"lae_main_branch_right", "lae_upper_lobe_right", "lae_middle_lobe_right",
      "lae_lower_lobe_right", "lae_main_branch_left", "lae_upper_lobe_left",
      "lae_lower_lobe_left">>

\* Phrases of the thrombus-burden section: one of the main-branch lexicon and
\* one of the lobe lexicon, each invalid for the other kind of site.
OcclusionPhrases == {<<"Total okkludiert">>, <<"Segmentarterie(n)">>}

\* A label of the report: absent (<<>>) or present with a raw text (<<raw>>).
Options(raws) == {<<>>} \cup {<<raw>> : raw \in raws}

\* The lines of the fields order[1], order[2], ... under the choice c.
ChosenLines(order, c) ==
    SelectSeq([i \in 1..Len(order) |->
                  IF c[i] = <<>> THEN <<>> ELSE Line(Label(order[i]), c[i][1])],
              LAMBDA l : l # <<>>)

\* Reports holding any subset of the 7 occlusion lines, each line with "-" or
\* with the one phrase the report uses.
OcclusionReports ==
    UNION {{JoinLines(ChosenLines(OcclusionOrder, c)) :
                c \in [1..Len(OcclusionOrder) -> Options({<<"-">>, phrase})]} :
           phrase \in OcclusionPhrases}

\* Reports holding any subset of the 7 occlusion lines, each with an empty value.
EmptyValueReports ==
    {JoinLines(ChosenLines(OcclusionOrder, c)) :
        c \in [1..Len(OcclusionOrder) -> Options({<<>>})]}

\* The closed lexicons of all classifiers, the neutral texts and texts in no lexicon.
LexiconRaws ==
    {<<>>, <<"-">>, <<"Ja">>, <<"Nein">>, <<"unbekannt">>,
     <<"0", " ", "(keine Artefakte)">>, <<"0">>, <<"1">>, <<"2">>, <<"3">>, <<"4">>, <<"5">>,
     <<"5", " ", "(nicht beurteilbar)">>, <<"6">>,
     <<"Verdacht auf", " ", "Lungenarterienembolie">>, <<"Verdacht auf">>,
     <<"Nicht beurteilbar">>,
     <<"Keine">>, <<"<25%">>, <<">=25%">>, <<"=25%">>, <<"25%">>,
     <<"<1">>, <<">=1">>, <<"=1">>,
     <<"Total okkludiert">>, <<"Partiell okkludiert">>,
     <<"Lappenarterie total okkludiert">>, <<"Lappenarterie partiell okkludiert">>,
     <<"Segmentarterie(n)">>, <<"Subsegmentarterie(n)">>,
     <<"4", "0">>, <<"4", "1">>, <<"1", "2", "0", " ", "H", "U">>, <<"H", "U">>}

\* Reports of one line: any field with any text of LexiconRaws.
LexiconReports == {Line(Label(f), raw) : f \in Fields, raw \in LexiconRaws}

-----------------------------------------------------------------------------
(* Numeric raw texts *)

\* Most digits before and after the comma in the numeric raw texts.
MaxIntDigits == 3
MaxFracDigits == 1

\* The digits the numeric raw texts are written with.
InputDigits == {"0", "1", "4", "5"}

DigitStrings(n) == UNION {[1..k -> InputDigits] : k \in 1..n}

\* digits, optionally followed by a comma and digits
NumberTexts ==
    DigitStrings(MaxIntDigits)
      \cup {i \o <<",">> \o f : i \in DigitStrings(MaxIntDigits), f \in DigitStrings(MaxFracDigits)}

\* Number texts as they are, with the unit, and malformed in the ways the patterns reject.
NumericRaws ==
    {<<>>, <<"-">>,
     <<"1", "2", "0", ",", "5", " ", "H", "U">>, <<"1", "2", "1", ",", "5", " ", "H", "U">>,
     <<"1", "2", "0", " ", "H", "U">>}
      \cup NumberTexts
      \cup {n \o <<" ", "H", "U">> : n \in NumberTexts}
      \cup {n \o <<"H", "U">> : n \in DigitStrings(1)}
      \cup {n \o <<",">> : n \in DigitStrings(1)}
      \cup {<<",">> \o n : n \in DigitStrings(1)}
      \cup {<<"-">> \o n : n \in DigitStrings(1)}

NumericFields == {"density_tr_pulmonalis", "clot_burden_score"}

\* Reports of one line: a numeric field with any text of NumericRaws.
NumericReports == {Line(Label(f), raw) : f \in NumericFields, raw \in NumericRaws}

-----------------------------------------------------------------------------
(* Reports that try the field locator *)

\* Most lines of a locator report.
MaxLines == 2

\* Lines with a valid and an invalid value, a value with a colon in it, a label
\* preceded by other text, a label inside the value of another label, a label
\* with nothing after the colon, a line without a colon, and the label with a
\* colon in it, with and without its own colon.
LocatorLines ==
    {Line(Label("ecg_sync"), <<"Ja">>),
     Line(Label("ecg_sync"), <<"Vielleicht">>),
     Line(Label("ecg_sync"), <<"a", ":", " ", "Nein">>),
     Line(Label("lae_middle_lobe_right"), <<"Segmentarterie(n)">>),
     <<"X">> \o Line(Label("lae_middle_lobe_right"), <<"Segmentarterie(n)">>),
     <<"Rechts", " ">> \o Line(Label("lae_middle_lobe_right"), <<"-">>),
     Line(Label("lae_upper_lobe_right"), Line(Label("lae_middle_lobe_right"), <<"foo">>)),
     Label("lae_middle_lobe_right") \o <<":", " ", " ">>,
     <<"Befund">>,
     Line(Label("clot_burden_score"), <<"1", "2">>),
     Label("clot_burden_score") \o <<" ", "1", "2">>}

\* Reports of up to MaxLines lines of LocatorLines, and the empty report.
LocatorReports ==
    {<<>>} \cup UNION {{JoinLines(ls) : ls \in [1..k -> LocatorLines]} : k \in 1..MaxLines}

-----------------------------------------------------------------------------
(* Batches of reports *)

\* Most reports of a batch.
MaxBatch == 2

\* The empty report, reports of one and of two lines with a valid and an invalid
\* value, and a report whose line carries the label of another field in its value.
BatchBodies ==
    {<<>>,
     Line(Label("ecg_sync"), <<"Ja">>),
     JoinLines(<<Line(Label("ecg_sync"), <<"Vielleicht">>),
                 Line(Label("lae_middle_lobe_right"), <<"Segmentarterie(n)">>)>>),
     JoinLines(<<Line(Label("ecg_sync"), <<"Ja">>),
                 Line(Label("lae_middle_lobe_right"), <<"Segmentarterie(n)">>)>>),
     Line(Label("lae_upper_lobe_right"), <<"Segmentarterie(n)">>),
     Line(Label("lae_upper_lobe_right"), Line(Label("lae_middle_lobe_right"), <<"foo">>))}

StudyIds == {PyStr(<<"S1">>), PyStr(<<"S2">>)}

\* list[Report]: any batch of up to MaxBatch reports, study ids repeated or not.
Batches ==
    UNION {[1..n -> {Report(id, body) : id \in StudyIds, body \in BatchBodies}] :
           n \in 0..MaxBatch}

-----------------------------------------------------------------------------
(* RulesExtractor.extract *)

RulesInit(bodies) ==
    /\ reports \in {<<Report(PyStr(<<"S1">>), body)>> : body \in bodies}
    /\ results = <<>>
    /\ input_values_file = NotWritten
    /\ evaluated_values_file = NotWritten
    /\ pc = "extract_from_reports"
    /\ llm_results = <<>>
    /\ extracted_data_file = NotWritten
    /\ llm_calls = Len(llm_results)
    /\ validations = <<>>
    /\ validations_file = NotWritten
    /\ validated = 0
    /\ df = <<>>
    /\ args = [limit |-> None, study_id |-> None]
    /\ analyzer_extracted_data_file = NotWritten

\* Mutant: the iteration also writes both tables with the results so far.
ExtractFromReportWritesTables ==
    /\ pc = "extract_from_reports"
    /\ Len(results) < Len(reports)
    /\ LET report == reports[Len(results) + 1]
           result == extract_from_report(report.report_body, report.study_id)
       IN  IF result = ValidationError
           THEN /\ pc' = "raised"
                /\ UNCHANGED <<results, input_values_file, evaluated_values_file>>
           ELSE /\ pc' = pc
                /\ results' = Append(results, result)
                /\ input_values_file' =
                      Csv([i \in 1..Len(results') |-> InputValuesItem(results'[i])])
                /\ evaluated_values_file' =
                      Csv([i \in 1..Len(results') |-> EvaluatedValuesItem(results'[i])])
    /\ UNCHANGED <<reports, llmVars, validatorVars, mainVars, analyzerVars>>

\* Mutant: the classifier variables outlive the iteration; a field missing in
\* this report keeps the evaluated value of the report before.
ExtractFromReportCarryingOver ==
    /\ pc = "extract_from_reports"
    /\ Len(results) < Len(reports)
    /\ LET report == reports[Len(results) + 1]
           result == extract_from_report(report.report_body, report.study_id)
       IN  IF result = ValidationError
           THEN pc' = "raised" /\ results' = results
           ELSE /\ pc' = pc
                /\ results' =
                      Append(results,
                             IF results = <<>> THEN result
                             ELSE [result EXCEPT !.evaluated_values =
                                      [f \in Fields |->
                                          IF result.evaluated_values[f] = MISSING_FIELD
                                          THEN results[Len(results)].evaluated_values[f]
                                          ELSE result.evaluated_values[f]]])
    /\ UNCHANGED <<reports, input_values_file, evaluated_values_file, llmVars, validatorVars,
                   mainVars, analyzerVars>>

\* One iteration of the loop of extract_from_reports.  An exception of
\* extract_from_report is caught nowhere: it ends extract before any export.
ExtractFromReport ==
    /\ pc = "extract_from_reports"
    /\ Len(results) < Len(reports)
    /\ LET report == reports[Len(results) + 1]
           result == extract_from_report(report.report_body, report.study_id)
       IN  IF result = ValidationError
           THEN pc' = "raised" /\ results' = results
           ELSE pc' = pc /\ results' = Append(results, result)
    /\ UNCHANGED <<reports, input_values_file, evaluated_values_file, llmVars, validatorVars,
                   mainVars, analyzerVars>>

\* The loop is exhausted: extract_from_reports returns.
ReturnResults ==
    /\ pc = "extract_from_reports"
    /\ Len(results) = Len(reports)
    /\ pc' = "export_extracted_input_values"
    /\ UNCHANGED <<rulesVars, llmVars, validatorVars, mainVars, analyzerVars>>

\* Mutant: the items are keyed by study_id, a later report replacing an earlier
\* one with the same study_id.
ExportExtractedInputValuesKeyedByStudyId ==
    /\ pc = "export_extracted_input_values"
    /\ LET all == [i \in 1..Len(results) |-> <<i, InputValuesItem(results[i])>>]
           kept == SelectSeq(all,
                             LAMBDA p : \A j \in (p[1] + 1)..Len(results) :
                                            results[j].study_id # results[p[1]].study_id)
       IN  input_values_file' = Csv([i \in 1..Len(kept) |-> kept[i][2]])
    /\ pc' = "export_extracted_evaluated_values"
    /\ UNCHANGED <<reports, results, evaluated_values_file, llmVars, validatorVars, mainVars,
                   analyzerVars>>

ExportExtractedInputValues ==
    /\ pc = "export_extracted_input_values"
    /\ input_values_file' = Csv([i \in 1..Len(results) |-> InputValuesItem(results[i])])
    /\ pc' = "export_extracted_evaluated_values"
    /\ UNCHANGED <<reports, results, evaluated_values_file, llmVars, validatorVars, mainVars,
                   analyzerVars>>

ExportExtractedEvaluatedValues ==
    /\ pc = "export_extracted_evaluated_values"
    /\ evaluated_values_file' = Csv([i \in 1..Len(results) |-> EvaluatedValuesItem(results[i])])
    /\ pc' = "done"
    /\ UNCHANGED <<reports, results, input_values_file, llmVars, validatorVars, mainVars,
                   analyzerVars>>

RulesNext ==
    \/ ExtractFromReport
    \/ ReturnResults
    \/ ExportExtractedInputValues
    \/ ExportExtractedEvaluatedValues

Init == RulesInit(OcclusionReports \cup LexiconReports)

Next == RulesNext

Spec == Init /\ [][Next]_vars

\* extract_from_report on the numeric raw texts.
InitNumeric == RulesInit(NumericReports)

NextNumeric == ExtractFromReport

SpecNumeric == InitNumeric /\ [][NextNumeric]_vars

\* The rules engine on the locator reports.
InitLocator == RulesInit(LocatorReports)

SpecLocator == InitLocator /\ [][Next]_vars

\* The rules engine on batches of several reports.
InitBatch ==
    /\ reports \in Batches
    /\ results = <<>>
    /\ input_values_file = NotWritten
    /\ evaluated_values_file = NotWritten
    /\ pc = "extract_from_reports"
    /\ llm_results = <<>>
    /\ extracted_data_file = NotWritten
    /\ llm_calls = Len(llm_results)
    /\ validations = <<>>
    /\ validations_file = NotWritten
    /\ validated = 0
    /\ df = <<>>
    /\ args = [limit |-> None, study_id |-> None]
    /\ analyzer_extracted_data_file = NotWritten

SpecBatch == InitBatch /\ [][Next]_vars

\* The rules engine on the reports with empty occlusion values.
InitEmptyValues == RulesInit(EmptyValueReports)

SpecEmptyValues == InitEmptyValues /\ [][Next]_vars

-----------------------------------------------------------------------------
(* InputValidator.validate *)

\* One iteration of the loop of validate_reports.
ValidateReport ==
    /\ pc = "validate_reports"
    /\ validated < Len(reports)
    /\ LET report == reports[validated + 1]
           validation == validate_report(report.report_body, report.study_id)
       IN  validations' = DictSet(validations, report.study_id, validation)
    /\ validated' = validated + 1
    /\ UNCHANGED <<pc, validations_file, rulesVars, llmVars, mainVars, analyzerVars>>

\* The loop is exhausted: validate_reports returns.
ReturnValidations ==
    /\ pc = "validate_reports"
    /\ validated = Len(reports)
    /\ pc' = "export_validations"
    /\ UNCHANGED <<rulesVars, llmVars, validatorVars, mainVars, analyzerVars>>

\* export_validations, after which validate returns.
ExportValidations ==
    /\ pc = "export_validations"
    /\ validations_file' =
          Csv([k \in 1..Len(validations) |->
                  ValidationItem(validations[k].key, validations[k].value)])
    /\ pc' = "validated"
    /\ UNCHANGED <<validations, validated, rulesVars, llmVars, mainVars, analyzerVars>>

\* The reports that try the occlusion checks of the validator: any subset of the
\* occlusion lines, and every lexicon text on every occlusion field.
ValidatorReports ==
    OcclusionReports \cup {Line(Label(f), raw) : f \in OcclusionFields, raw \in LexiconRaws}

InitValidator ==
    /\ reports \in {<<Report(PyStr(<<"S1">>), body)>> : body \in ValidatorReports}
    /\ pc = "validate_reports"
    /\ validations = <<>>
    /\ validations_file = NotWritten
    /\ validated = 0
    /\ results = <<>>
    /\ input_values_file = NotWritten
    /\ evaluated_values_file = NotWritten
    /\ llm_results = <<>>
    /\ extracted_data_file = NotWritten
    /\ llm_calls = Len(llm_results)
    /\ df = <<>>
    /\ args = [limit |-> None, study_id |-> None]
    /\ analyzer_extracted_data_file = NotWritten

NextValidator == ValidateReport \/ ReturnValidations \/ ExportValidations

SpecValidator == InitValidator /\ [][NextValidator]_vars

-----------------------------------------------------------------------------
(* LlmExtractor.export_extracted_data *)

LlmResult(study_id, findings) == [study_id |-> study_id, findings |-> findings]

InitCbs ==
    /\ llm_results \in {<<LlmResult(PyStr(<<"S1">>), f)>> : f \in Findings}
    /\ extracted_data_file = NotWritten
    /\ llm_calls = Len(llm_results)
    /\ pc = "export_extracted_data"
    /\ reports = <<>>
    /\ results = <<>>
    /\ input_values_file = NotWritten
    /\ evaluated_values_file = NotWritten
    /\ validations = <<>>
    /\ validations_file = NotWritten
    /\ validated = 0
    /\ df = <<>>
    /\ args = [limit |-> None, study_id |-> None]
    /\ analyzer_extracted_data_file = NotWritten

ExportExtractedData ==
    /\ pc = "export_extracted_data"
    /\ extracted_data_file' =
          Csv([i \in 1..Len(llm_results) |-> ExtractedDataItem(llm_results[i])])
    /\ pc' = "done"
    /\ UNCHANGED <<rulesVars, llm_results, llm_calls, validatorVars, mainVars, analyzerVars>>

NextCbs == ExportExtractedData

SpecCbs == InitCbs /\ [][NextCbs]_vars

-----------------------------------------------------------------------------
(* analyze.DataAnalyzer: the scorer of the single-file analysis script and *)
(* the export that applies it                                              *)

\* Mutant: a subsegmental right middle lobe scores 1 like the other lobes.
DataAnalyzer_calc_cbs_score_middle_subsegmental_one(findings) ==
    LET left ==
            IF findings.lae_main_branch_left = Member("MainBranchOcclusion", "TOTAL")
                THEN Float(20, 1)
            ELSE IF findings.lae_main_branch_left = Member("MainBranchOcclusion", "PARTIAL")
                THEN Float(10, 1)
            ELSE FloatAdd(
                IF findings.lae_upper_lobe_left = Member("LobeOcclusion", "TOTAL")
                    THEN Float(10, 1)
                ELSE IF findings.lae_upper_lobe_left = Member("LobeOcclusion", "PARTIAL")
                    THEN Float(5, 1)
                ELSE IF findings.lae_upper_lobe_left = Member("LobeOcclusion", "SEGMENTAL")
                    THEN Float(25, 10)
                ELSE IF findings.lae_upper_lobe_left = Member("LobeOcclusion", "SUBSEGMENTAL")
                    THEN Float(1, 1)
                ELSE Float(0, 1),
                IF findings.lae_lower_lobe_left = Member("LobeOcclusion", "TOTAL")
                    THEN Float(10, 1)
                ELSE IF findings.lae_lower_lobe_left = Member("LobeOcclusion", "PARTIAL")
                    THEN Float(5, 1)
                ELSE IF findings.lae_lower_lobe_left = Member("LobeOcclusion", "SEGMENTAL")
                    THEN Float(25, 10)
                ELSE IF findings.lae_lower_lobe_left = Member("LobeOcclusion", "SUBSEGMENTAL")
                    THEN Float(1, 1)
                ELSE Float(0, 1))
        right ==
            IF findings.lae_main_branch_right = Member("MainBranchOcclusion", "TOTAL")
                THEN Float(20, 1)
            ELSE IF findings.lae_main_branch_right = Member("MainBranchOcclusion", "PARTIAL")
                THEN Float(10, 1)
            ELSE FloatAdd(FloatAdd(
                IF findings.lae_upper_lobe_right = Member("LobeOcclusion", "TOTAL")
                    THEN Float(6, 1)
                ELSE IF findings.lae_upper_lobe_right = Member("LobeOcclusion", "PARTIAL")
                    THEN Float(3, 1)
                ELSE IF findings.lae_upper_lobe_right = Member("LobeOcclusion", "SEGMENTAL")
                    THEN Float(15, 10)
                ELSE IF findings.lae_upper_lobe_right = Member("LobeOcclusion", "SUBSEGMENTAL")
                    THEN Float(1, 1)
                ELSE Float(0, 1),
                IF findings.lae_middle_lobe_right = Member("LobeOcclusion", "TOTAL")
                    THEN Float(4, 1)
                ELSE IF findings.lae_middle_lobe_right = Member("LobeOcclusion", "PARTIAL")
                    THEN Float(2, 1)
                ELSE IF findings.lae_middle_lobe_right = Member("LobeOcclusion", "SEGMENTAL")
                    THEN Float(1, 1)
                ELSE IF findings.lae_middle_lobe_right = Member("LobeOcclusion", "SUBSEGMENTAL")
                    THEN Float(1, 1)
                ELSE Float(0, 1)),
                IF findings.lae_lower_lobe_right = Member("LobeOcclusion", "TOTAL")
                    THEN Float(10, 1)
                ELSE IF findings.lae_lower_lobe_right = Member("LobeOcclusion", "PARTIAL")
                    THEN Float(5, 1)
                ELSE IF findings.lae_lower_lobe_right = Member("LobeOcclusion", "SEGMENTAL")
                    THEN Float(25, 10)
                ELSE IF findings.lae_lower_lobe_right = Member("LobeOcclusion", "SUBSEGMENTAL")
                    THEN Float(1, 1)
                ELSE Float(0, 1))
    IN  FloatAdd(FloatAdd(Float(0, 1), left), right)

\* DataAnalyzer.calc_cbs_score, one if/elif chain per site as in the source.
DataAnalyzer_calc_cbs_score(findings) ==
    LET left ==
            IF findings.lae_main_branch_left = Member("MainBranchOcclusion", "TOTAL")
                THEN Float(20, 1)
            ELSE IF findings.lae_main_branch_left = Member("MainBranchOcclusion", "PARTIAL")
                THEN Float(10, 1)
            ELSE FloatAdd(
                IF findings.lae_upper_lobe_left = Member("LobeOcclusion", "TOTAL")
                    THEN Float(10, 1)
                ELSE IF findings.lae_upper_lobe_left = Member("LobeOcclusion", "PARTIAL")
                    THEN Float(5, 1)
                ELSE IF findings.lae_upper_lobe_left = Member("LobeOcclusion", "SEGMENTAL")
                    THEN Float(25, 10)
                ELSE IF findings.lae_upper_lobe_left = Member("LobeOcclusion", "SUBSEGMENTAL")
                    THEN Float(1, 1)
                ELSE Float(0, 1),
                IF findings.lae_lower_lobe_left = Member("LobeOcclusion", "TOTAL")
                    THEN Float(10, 1)
                ELSE IF findings.lae_lower_lobe_left = Member("LobeOcclusion", "PARTIAL")
                    THEN Float(5, 1)
                ELSE IF findings.lae_lower_lobe_left = Member("LobeOcclusion", "SEGMENTAL")
                    THEN Float(25, 10)
                ELSE IF findings.lae_lower_lobe_left = Member("LobeOcclusion", "SUBSEGMENTAL")
                    THEN Float(1, 1)
                ELSE Float(0, 1))
        right ==
            IF findings.lae_main_branch_right = Member("MainBranchOcclusion", "TOTAL")
                THEN Float(20, 1)
            ELSE IF findings.lae_main_branch_right = Member("MainBranchOcclusion", "PARTIAL")
                THEN Float(10, 1)
            ELSE FloatAdd(FloatAdd(
                IF findings.lae_upper_lobe_right = Member("LobeOcclusion", "TOTAL")
                    THEN Float(6, 1)
                ELSE IF findings.lae_upper_lobe_right = Member("LobeOcclusion", "PARTIAL")
                    THEN Float(3, 1)
                ELSE IF findings.lae_upper_lobe_right = Member("LobeOcclusion", "SEGMENTAL")
                    THEN Float(15, 10)
                ELSE IF findings.lae_upper_lobe_right = Member("LobeOcclusion", "SUBSEGMENTAL")
                    THEN Float(1, 1)
                ELSE Float(0, 1),
                IF findings.lae_middle_lobe_right = Member("LobeOcclusion", "TOTAL")
                    THEN Float(4, 1)
                ELSE IF findings.lae_middle_lobe_right = Member("LobeOcclusion", "PARTIAL")
                    THEN Float(2, 1)
                ELSE IF findings.lae_middle_lobe_right = Member("LobeOcclusion", "SEGMENTAL")
                    THEN Float(1, 1)
                ELSE IF findings.lae_middle_lobe_right = Member("LobeOcclusion", "SUBSEGMENTAL")
                    THEN Float(5, 10)
                ELSE Float(0, 1)),
                IF findings.lae_lower_lobe_right = Member("LobeOcclusion", "TOTAL")
                    THEN Float(10, 1)
                ELSE IF findings.lae_lower_lobe_right = Member("LobeOcclusion", "PARTIAL")
                    THEN Float(5, 1)
                ELSE IF findings.lae_lower_lobe_right = Member("LobeOcclusion", "SEGMENTAL")
                    THEN Float(25, 10)
                ELSE IF findings.lae_lower_lobe_right = Member("LobeOcclusion", "SUBSEGMENTAL")
                    THEN Float(1, 1)
                ELSE Float(0, 1))
    IN  FloatAdd(FloatAdd(Float(0, 1), left), right)

\* export_extracted_data: item.  The clinical-information and indication
\* columns and the keywords are not modelled.
AnalyzerExtractedDataItem(result) ==
    Merge(Merge(StudyIdItem(result.study_id), result.findings),
          [k \in {"clot_burden_score_calc"} |-> DataAnalyzer_calc_cbs_score(result.findings)])

\* DataAnalyzer.export_extracted_data on the same extracted data.
AnalyzerExportExtractedData ==
    /\ analyzer_extracted_data_file = NotWritten
    /\ analyzer_extracted_data_file' =
          Csv([i \in 1..Len(llm_results) |-> AnalyzerExtractedDataItem(llm_results[i])])
    /\ UNCHANGED <<pc, rulesVars, llmVars, validatorVars, mainVars>>

NextScorers == ExportExtractedData \/ AnalyzerExportExtractedData

SpecScorers == InitCbs /\ [][NextScorers]_vars

-----------------------------------------------------------------------------
(* main: the batch selected from the input table.  The lines are the same *)
(* in extract.main and workflow.main.  A row of the table is the pair of  *)
(* the cells of STUDY_ID_COLUMN and REPORT_COLUMN, both read as text.     *)

Row(study_id, report) == [study_id |-> study_id, report |-> report]

\* df.head(n): the first n rows, for a negative n all rows but the last -n.
DataFrameHead(rows, n) ==
    IF n >= 0 THEN SubSeq(rows, 1, IF n < Len(rows) THEN n ELSE Len(rows))
    ELSE SubSeq(rows, 1, IF Len(rows) + n > 0 THEN Len(rows) + n ELSE 0)

\* df[df[study_id_column].isin(study_ids)]
DataFrameIsin(rows, study_ids) ==
    SelectSeq(rows, LAMBDA row : \E k \in 1..Len(study_ids.items) :
                                     study_ids.items[k] = row.study_id)

\* Mutant: a given limit is applied first and the study ids are ignored then.
SelectReportsLimitFirst(table, arguments) ==
    LET limit_reports == arguments.limit
        study_ids == IF arguments.study_id # None /\ arguments.study_id.items # <<>>
                     THEN arguments.study_id ELSE None
        rows == IF limit_reports.type = "int" THEN DataFrameHead(table, limit_reports.n)
                ELSE IF study_ids # None THEN DataFrameIsin(table, study_ids)
                ELSE table
    IN  [i \in 1..Len(rows) |-> Report(rows[i].study_id, rows[i].report)]

\* limit_reports and study_ids from the arguments, the selection of the rows
\* and the list of Reports built from them.
SelectReports(table, arguments) ==
    LET limit_reports == arguments.limit
        study_ids == IF arguments.study_id # None /\ arguments.study_id.items # <<>>
                     THEN arguments.study_id ELSE None
        rows == IF study_ids # None THEN DataFrameIsin(table, study_ids)
                ELSE IF limit_reports.type = "int" THEN DataFrameHead(table, limit_reports.n)
                ELSE table
    IN  [i \in 1..Len(rows) |-> Report(rows[i].study_id, rows[i].report)]

MainBodies == {Line(Label("ecg_sync"), <<"Ja">>), Line(Label("ecg_sync"), <<"Vielleicht">>)}

\* The input table: up to MaxBatch rows, study ids repeated or not.
Tables ==
    UNION {[1..n -> {Row(id, body) : id \in StudyIds, body \in MainBodies}] : n \in 0..MaxBatch}

\* --limit: absent or an integer, also one beyond the table and a negative one.
Limits == {None} \cup {PyInt(n) : n \in -1..(MaxBatch + 1)}

\* --study-id: absent or the list of the values given, S3 in no row.
StudyIdLists ==
    {None, PyList(<<PyStr(<<"S1">>)>>), PyList(<<PyStr(<<"S2">>)>>), PyList(<<PyStr(<<"S3">>)>>),
     PyList(<<PyStr(<<"S2">>), PyStr(<<"S1">>)>>), PyList(<<PyStr(<<"S3">>), PyStr(<<"S1">>)>>)}

MainInit ==
    /\ df \in Tables
    /\ args \in [limit : Limits, study_id : StudyIdLists]
    /\ pc = "main"
    /\ reports = <<>>
    /\ results = <<>>
    /\ input_values_file = NotWritten
    /\ evaluated_values_file = NotWritten
    /\ llm_results = <<>>
    /\ extracted_data_file = NotWritten
    /\ llm_calls = Len(llm_results)
    /\ validations = <<>>
    /\ validations_file = NotWritten
    /\ validated = 0
    /\ analyzer_extracted_data_file = NotWritten

\* extract.main with --rules: the batch is selected and handed to the
\* RulesExtractor.
ExtractMain ==
    /\ pc = "main"
    /\ reports' = SelectReports(df, args)
    /\ pc' = "extract_from_reports"
    /\ UNCHANGED <<results, input_values_file, evaluated_values_file, llmVars, validatorVars,
                   mainVars, analyzerVars>>

NextExtractMain == ExtractMain \/ RulesNext

SpecExtractMain == MainInit /\ [][NextExtractMain]_vars

-----------------------------------------------------------------------------
(* workflow.main: the batch is validated, then extracted with the LLM *)

\* The batch is selected and handed to the InputValidator.
WorkflowMain ==
    /\ pc = "main"
    /\ reports' = SelectReports(df, args)
    /\ pc' = "validate_reports"
    /\ UNCHANGED <<results, input_values_file, evaluated_values_file, llmVars, validatorVars,
                   mainVars, analyzerVars>>

\* validate has returned: the LlmExtractor is built and extract called.
StartLlmExtractor ==
    /\ pc = "validated"
    /\ pc' = "llm_extract_from_reports"
    /\ UNCHANGED <<rulesVars, llmVars, validatorVars, mainVars, analyzerVars>>

\* What the model answers, as far as the scorer reads it.
LlmFindings ==
    {[f \in OcclusionFields |-> NoneVariant(f)],
     [f \in OcclusionFields |->
         IF f = "lae_middle_lobe_right" THEN Member("LobeOcclusion", "SUBSEGMENTAL")
         ELSE NoneVariant(f)]}

\* How a call of extract_from_report ends: the client raises, the completion
\* has no parsed data or no usage (a failed assertion), or findings come back.
LlmFailures ==
    {[type |-> "Exception", of |-> k] : k \in {"parse", "assert extracted_data", "assert usage"}}

LlmOutcomes == LlmFailures \cup LlmFindings

\* Mutant: a failed call is skipped and the loop goes on with the next report.
LlmExtractFromReportSkippingFailures ==
    /\ pc = "llm_extract_from_reports"
    /\ llm_calls < Len(reports)
    /\ llm_calls' = llm_calls + 1
    /\ \E outcome \in LlmOutcomes :
          IF outcome \in LlmFindings
          THEN llm_results' =
                  Append(llm_results, LlmResult(reports[llm_calls + 1].study_id, outcome))
          ELSE llm_results' = llm_results
    /\ UNCHANGED <<pc, extracted_data_file, rulesVars, validatorVars, mainVars, analyzerVars>>

\* One iteration of the loop of LlmExtractor.extract_from_reports.  Neither
\* the loop nor extract nor main catches an exception.
LlmExtractFromReport ==
    /\ pc = "llm_extract_from_reports"
    /\ llm_calls < Len(reports)
    /\ llm_calls' = llm_calls + 1
    /\ \E outcome \in LlmOutcomes :
          IF outcome \in LlmFindings
          THEN /\ llm_results' =
                     Append(llm_results, LlmResult(reports[llm_calls + 1].study_id, outcome))
               /\ pc' = pc
          ELSE /\ llm_results' = llm_results
               /\ pc' = "raised"
    /\ UNCHANGED <<extracted_data_file, rulesVars, validatorVars, mainVars, analyzerVars>>

\* The loop is exhausted: extract_from_reports returns.
LlmReturnResults ==
    /\ pc = "llm_extract_from_reports"
    /\ llm_calls = Len(reports)
    /\ pc' = "export_extracted_data"
    /\ UNCHANGED <<rulesVars, llmVars, validatorVars, mainVars, analyzerVars>>

NextWorkflow ==
    \/ WorkflowMain
    \/ ValidateReport
    \/ ReturnValidations
    \/ ExportValidations
    \/ StartLlmExtractor
    \/ LlmExtractFromReport
    \/ LlmReturnResults
    \/ ExportExtractedData

SpecWorkflow == MainInit /\ [][NextWorkflow]_vars

-----------------------------------------------------------------------------
(* Properties *)

\* Some line of the report contains "<label>:".
LabelFound(body, f) ==
    LET lines == Split(body, "\n")
    IN  \E k \in 1..Len(lines) : Contains(lines[k], Label(f) \o <<":">>)

FoundOcclusionLabels(body) == {f \in OcclusionFields : LabelFound(body, f)}

Processed == 1..Len(results)

\* C1: a report in which none of the 7 occlusion labels is found has all 7
\* evaluated occlusion fields at their NONE variant (MainBranchOcclusion.NONE for
\* the main branches, LobeOcclusion.NONE for the lobes), none at MISSING_FIELD.
C1_AllAbsentIsNone ==
    \A i \in Processed :
        FoundOcclusionLabels(reports[i].report_body) = {} =>
            LET ev == results[i].evaluated_values
            IN  /\ \A f \in MainBranchFields : ev[f] = Member("MainBranchOcclusion", "NONE")
                /\ \A f \in LobeFields : ev[f] = Member("LobeOcclusion", "NONE")
                /\ \A f \in OcclusionFields : ev[f] # MISSING_FIELD

\* A processed report with a line of another field and no occlusion label.
C1_Witness ==
    /\ Len(results) = 1
    /\ FoundOcclusionLabels(reports[1].report_body) = {}
    /\ LabelFound(reports[1].report_body, "lae_presence")

\* C2: in a report in which at least one of the 7 occlusion labels is found,
\* every occlusion field whose label is absent evaluates to MISSING_FIELD.
C2_AbsentStaysMissing ==
    \A i \in Processed :
        LET found == FoundOcclusionLabels(reports[i].report_body)
        IN  found # {} =>
                \A f \in OcclusionFields \ found :
                    results[i].evaluated_values[f] = MISSING_FIELD

\* A processed report with 3 of the 7 labels present and 4 absent.
C2_Witness ==
    /\ Len(results) = 1
    /\ Cardinality(FoundOcclusionLabels(reports[1].report_body)) = 3

-----------------------------------------------------------------------------
(* Properties of the clot-burden score.  Points are compared in tenths. *)

\* The rows export_extracted_data has written.
ScoredRows ==
    IF extracted_data_file = NotWritten THEN {}
    ELSE {extracted_data_file.rows[i] : i \in 1..Len(extracted_data_file.rows)}

\* A float with one decimal place at most, in tenths.
Tenths(x) == (x.num * 10) \div x.den

HasTenths(x) == (x.num * 10) % x.den = 0

\* The table of section 4.4, in tenths of a point.
TablePoints(site, value) ==
    LET row == CASE site = "lae_upper_lobe_left" -> <<100, 50, 25, 10>>
                 [] site = "lae_lower_lobe_left" -> <<100, 50, 25, 10>>
                 [] site = "lae_upper_lobe_right" -> <<60, 30, 15, 10>>
                 [] site = "lae_middle_lobe_right" -> <<40, 20, 10, 5>>
                 [] site = "lae_lower_lobe_right" -> <<100, 50, 25, 10>>
    IN  CASE value.name = "TOTAL" -> row[1]
          [] value.name = "PARTIAL" -> row[2]
          [] value.name = "SEGMENTAL" -> row[3]
          [] value.name = "SUBSEGMENTAL" -> row[4]
          [] value.name = "NONE" -> 0

Sides == {"left", "right"}

MainOf(side) == IF side = "left" THEN "lae_main_branch_left" ELSE "lae_main_branch_right"

LobesOf(side) ==
    IF side = "left" THEN <<"lae_upper_lobe_left", "lae_lower_lobe_left">>
    ELSE <<"lae_upper_lobe_right", "lae_middle_lobe_right", "lae_lower_lobe_right">>

Other(side) == IF side = "left" THEN "right" ELSE "left"

RECURSIVE SumLobes(_, _)
SumLobes(row, lobes) ==
    IF lobes = <<>> THEN 0
    ELSE TablePoints(Head(lobes), row[Head(lobes)]) + SumLobes(row, Tail(lobes))

\* What section 4.4 awards to one side, in tenths.
SidePoints(row, side) ==
    CASE row[MainOf(side)].name = "TOTAL" -> 200
      [] row[MainOf(side)].name = "PARTIAL" -> 100
      [] row[MainOf(side)].name = "NONE" -> SumLobes(row, LobesOf(side))

\* C3: a side whose main branch is TOTAL contributes exactly 20 points and one
\* whose main branch is PARTIAL exactly 10, whatever the values of that side's
\* lobes (the score less the other side's points); both main branches TOTAL give 40.0.
C3_MainBranchSkipsLobes ==
    \A row \in ScoredRows :
        LET score == row["clot_burden_score_calc"]
        IN  /\ HasTenths(score)
            /\ \A side \in Sides :
                  /\ row[MainOf(side)].name = "TOTAL" =>
                        Tenths(score) - SidePoints(row, Other(side)) = 200
                  /\ row[MainOf(side)].name = "PARTIAL" =>
                        Tenths(score) - SidePoints(row, Other(side)) = 100
            /\ (\A side \in Sides : row[MainOf(side)].name = "TOTAL") =>
                  score = Float(40, 1)

\* Both main branches TOTAL with occluded lobes on both sides, scored.
C3_Witness ==
    \E row \in ScoredRows :
        /\ \A side \in Sides : row[MainOf(side)].name = "TOTAL"
        /\ row["lae_upper_lobe_left"].name = "TOTAL"
        /\ row["lae_middle_lobe_right"].name = "SEGMENTAL"
        /\ row["clot_burden_score_calc"] = Float(40, 1)

\* C4: the score is the sum of the two sides' contributions, and a side whose
\* main branch is NONE contributes the sum of its lobes' points of the table;
\* all 7 NONE give 0.0; left main NONE, left upper SUBSEGMENTAL, left lower
\* PARTIAL and right main PARTIAL give 16.0.
C4_NoneSideSumsLobes ==
    \A row \in ScoredRows :
        LET score == row["clot_burden_score_calc"]
        IN  /\ HasTenths(score)
            /\ \A side \in Sides :
                  row[MainOf(side)].name = "NONE" =>
                      Tenths(score) = SumLobes(row, LobesOf(side)) + SidePoints(row, Other(side))
            /\ (\A f \in OcclusionFields : row[f].name = "NONE") => score = Float(0, 1)
            /\ ( /\ row["lae_main_branch_left"].name = "NONE"
                 /\ row["lae_upper_lobe_left"].name = "SUBSEGMENTAL"
                 /\ row["lae_lower_lobe_left"].name = "PARTIAL"
                 /\ row["lae_main_branch_right"].name = "PARTIAL" ) => score = Float(16, 1)

\* The example of the claim, scored 16.0, with occluded right lobes.
C4_Witness ==
    \E row \in ScoredRows :
        /\ row["lae_main_branch_left"].name = "NONE"
        /\ row["lae_upper_lobe_left"].name = "SUBSEGMENTAL"
        /\ row["lae_lower_lobe_left"].name = "PARTIAL"
        /\ row["lae_main_branch_right"].name = "PARTIAL"
        /\ row["lae_lower_lobe_right"].name = "TOTAL"
        /\ row["clot_burden_score_calc"] = Float(16, 1)

\* C5: for every combination of the 7 occlusion values the score lies in the
\* closed range [0, 40]; 40 is reached (C5_Witness) and never exceeded.
C5_ScoreInRange ==
    \A row \in ScoredRows :
        /\ 0 * row["clot_burden_score_calc"].den <= row["clot_burden_score_calc"].num
        /\ row["clot_burden_score_calc"].num <= 40 * row["clot_burden_score_calc"].den

\* The maximum, reached without a main-branch occlusion on the right.
C5_Witness ==
    \E row \in ScoredRows :
        /\ row["clot_burden_score_calc"] = Float(40, 1)
        /\ row["lae_main_branch_right"].name = "NONE"

-----------------------------------------------------------------------------
(* Properties of the emitted results of the rules engine *)

Rows(file) == IF file = NotWritten THEN <<>> ELSE file.rows

OcclusionErrorFree(ev) == \A f \in OcclusionFields : ev[f] \notin ErrorCode

-----------------------------------------------------------------------------
(* Properties of the numeric classifiers *)

\* n is digits, optionally followed by a comma and digits.
IsNumberText(n) ==
    /\ Len(n) > 0
    /\ \A j \in 1..Len(n) : n[j] \in Digit \cup {","}
    /\ Cardinality({j \in 1..Len(n) : n[j] = ","}) <= 1
    /\ n[1] # ","
    /\ n[Len(n)] # ","

\* The number a number text denotes, the comma read as the decimal separator,
\* as numerator and denominator.
Numerator(n) == DigitsValue(SelectSeq(n, LAMBDA c : c # ","))

Denominator(n) ==
    IF \E j \in 1..Len(n) : n[j] = ","
    THEN Pow10(Len(n) - (CHOOSE j \in 1..Len(n) : n[j] = ","))
    ELSE 1

Abs(x) == IF x < 0 THEN -x ELSE x

\* k is num/den rounded to the nearest integer, a half rounded up.
IsHalfUp(k, num, den) == 2 * k * den - den <= 2 * num /\ 2 * num < 2 * k * den + den

\* k is num/den rounded to the nearest integer, a half rounded to the even one.
IsHalfEven(k, num, den) ==
    \/ 2 * Abs(k * den - num) < den
    \/ 2 * Abs(k * den - num) = den /\ k % 2 = 0

\* raw is a number text followed by " HU".
HasUnit(raw) ==
    /\ Len(raw) > 3
    /\ SubSeq(raw, Len(raw) - 2, Len(raw)) = <<" ", "H", "U">>
    /\ IsNumberText(SubSeq(raw, 1, Len(raw) - 3))

NumberOfUnit(raw) == SubSeq(raw, 1, Len(raw) - 3)

\* C7 as stated: a density raw text "<number> HU" evaluates to the number rounded
\* to the nearest integer with halves rounded up ("120,5 HU" gives 121); "" and
\* "-" evaluate to null.
C7_DensityRoundsHalfUp ==
    \A i \in Processed :
        LabelFound(reports[i].report_body, "density_tr_pulmonalis") =>
            LET raw == results[i].input_values["density_tr_pulmonalis"].s
                ev == results[i].evaluated_values["density_tr_pulmonalis"]
            IN  /\ HasUnit(raw) =>
                      /\ ev.type = "int"
                      /\ IsHalfUp(ev.n, Numerator(NumberOfUnit(raw)), Denominator(NumberOfUnit(raw)))
                /\ raw \in {<<>>, <<"-">>} => ev = None

\* C7 amended: a density raw text "<number> HU" evaluates to the number rounded to
\* the nearest integer with halves rounded to the even integer ("120,5 HU" gives
\* 120, "121,5 HU" 122, "120 HU" 120); "" and "-" evaluate to null.
C7_DensityRoundsHalfEven ==
    \A i \in Processed :
        LabelFound(reports[i].report_body, "density_tr_pulmonalis") =>
            LET raw == results[i].input_values["density_tr_pulmonalis"].s
                ev == results[i].evaluated_values["density_tr_pulmonalis"]
            IN  /\ HasUnit(raw) =>
                      /\ ev.type = "int"
                      /\ IsHalfEven(ev.n, Numerator(NumberOfUnit(raw)), Denominator(NumberOfUnit(raw)))
                /\ raw \in {<<>>, <<"-">>} => ev = None

\* "120,5 HU" classified: 120.
C7_Witness ==
    /\ Len(results) = 1
    /\ results[1].input_values["density_tr_pulmonalis"].s
          = <<"1", "2", "0", ",", "5", " ", "H", "U">>
    /\ results[1].evaluated_values["density_tr_pulmonalis"] = PyInt(120)

-----------------------------------------------------------------------------
(* Properties of the classifiers *)

\* C9: ">=25%" (U+2265) and "=25%" both decode to PerfusionDeficit.GE_25, ">=1"
\* and "=1" both to RightHeartQuotient.GE_1; "Keine" decodes to NONE, "<25%" to
\* LT_25, "<1" to LT_1, and any other text that is not neutral to INVALID_VALUE.
C9_GeSynonyms ==
    \A i \in Processed :
        /\ LabelFound(reports[i].report_body, "perfusion_deficit") =>
              LET raw == results[i].input_values["perfusion_deficit"].s
                  ev == results[i].evaluated_values["perfusion_deficit"]
              IN  CASE raw \in {<<">=25%">>, <<"=25%">>} -> ev = Member("PerfusionDeficit", "GE_25")
                    [] raw = <<"Keine">> -> ev = Member("PerfusionDeficit", "NONE")
                    [] raw = <<"<25%">> -> ev = Member("PerfusionDeficit", "LT_25")
                    [] raw \in {<<>>, <<"-">>} -> TRUE
                    [] OTHER -> ev = INVALID_VALUE
        /\ LabelFound(reports[i].report_body, "rv_lv_quotient") =>
              LET raw == results[i].input_values["rv_lv_quotient"].s
                  ev == results[i].evaluated_values["rv_lv_quotient"]
              IN  CASE raw \in {<<">=1">>, <<"=1">>} -> ev = Member("RightHeartQuotient", "GE_1")
                    [] raw = <<"<1">> -> ev = Member("RightHeartQuotient", "LT_1")
                    [] raw \in {<<>>, <<"-">>} -> TRUE
                    [] OTHER -> ev = INVALID_VALUE

\* "=25%" classified as the perfusion deficit: GE_25.
C9_Witness ==
    /\ Len(results) = 1
    /\ LabelFound(reports[1].report_body, "perfusion_deficit")
    /\ results[1].input_values["perfusion_deficit"].s = <<"=25%">>
    /\ results[1].evaluated_values["perfusion_deficit"] = Member("PerfusionDeficit", "GE_25")

\* The values of the typed domain of field f.
InDomain(f, v) ==
    CASE f = "ecg_sync" -> v.type = "bool" /\ v.b \in BOOLEAN
      [] f \in {"density_tr_pulmonalis", "artefact_score"} -> v.type = "int" /\ v.n \in Nat
      [] f = "lae_presence" ->
            v.type = "LaePresence" /\ v.name \in {"NOT_ASSESSABLE", "SUSPECTED", "NO", "YES"}
      [] f \in MainBranchFields ->
            v.type = "MainBranchOcclusion" /\ v.name \in {"NONE", "TOTAL", "PARTIAL"}
      [] f \in LobeFields ->
            /\ v.type = "LobeOcclusion"
            /\ v.name \in {"NONE", "TOTAL", "PARTIAL", "SEGMENTAL", "SUBSEGMENTAL"}
      [] f = "clot_burden_score" -> v.type = "float" /\ v.num \in Nat /\ v.den \in Nat \ {0}
      [] f = "perfusion_deficit" ->
            v.type = "PerfusionDeficit" /\ v.name \in {"NONE", "LT_25", "GE_25"}
      [] f = "rv_lv_quotient" -> v.type = "RightHeartQuotient" /\ v.name \in {"LT_1", "GE_1"}

-----------------------------------------------------------------------------
(* Properties of the field locator *)

Min(S) == CHOOSE x \in S : \A y \in S : x <= y

Max(S) == CHOOSE x \in S : \A y \in S : y <= x

\* The lines of the report that contain "<label>:", by their position.
MatchingLines(body, f) ==
    LET lines == Split(body, "\n")
    IN  {k \in 1..Len(lines) : Contains(lines[k], Label(f) \o <<":">>)}

\* The text of a line after its last colon.
AfterLastColon(line) ==
    SubSeq(line, Max({j \in 1..Len(line) : line[j] = ":"}) + 1, Len(line))

\* A text without its leading and trailing whitespace.
Trimmed(text) ==
    LET keep == {j \in 1..Len(text) : text[j] \notin Whitespace}
    IN  IF keep = {} THEN <<>> ELSE SubSeq(text, Min(keep), Max(keep))

\* Field f of result i was classified as absent: MISSING_FIELD, or the NONE the
\* consistency rule puts in its place when no occlusion label is found.
ClassifiedAbsent(i, f) ==
    \/ results[i].evaluated_values[f] = MISSING_FIELD
    \/ /\ f \in OcclusionFields
       /\ FoundOcclusionLabels(reports[i].report_body) = {}
       /\ results[i].evaluated_values[f] = NoneVariant(f)

\* C11: for every field, the raw value is the stripped text after the last
\* colon of the first line of the report that contains "<label>:" (later
\* matching lines are ignored, of a value with colons only the last segment is
\* kept); when no line contains it the locator returns None, which the
\* classifier records as "" and MISSING_FIELD.
C11_FirstLineLastColon ==
    \A i \in Processed :
        \A f \in Fields :
            LET body == reports[i].report_body
                m == MatchingLines(body, f)
                iv == results[i].input_values[f]
            IN  IF m = {}
                THEN iv = PyStr(<<>>) /\ ClassifiedAbsent(i, f)
                ELSE /\ iv = PyStr(Trimmed(AfterLastColon(Split(body, "\n")[Min(m)])))
                     /\ results[i].evaluated_values[f] # MISSING_FIELD

\* A report whose first EKG line carries an invalid value and whose second a valid
\* one: the first is taken.
C11_Witness ==
    /\ Len(results) = 1
    /\ reports[1].report_body =
          JoinLines(<<Line(Label("ecg_sync"), <<"Vielleicht">>),
                      Line(Label("ecg_sync"), <<"Ja">>)>>)
    /\ results[1].input_values["ecg_sync"] = PyStr(<<"Vielleicht">>)
    /\ results[1].evaluated_values["ecg_sync"] = INVALID_VALUE

\* The line starts with the text.
StartsWith(line, text) == Len(line) >= Len(text) /\ SubSeq(line, 1, Len(text)) = text

\* The lines of the report whose label is exactly the label of f.
LabelledLines(body, f) ==
    LET lines == Split(body, "\n")
    IN  {k \in 1..Len(lines) : StartsWith(lines[k], Label(f) \o <<":">>)}

\* C12 as stated: label matching is exact.  A field none of whose lines is
\* labelled exactly "<label>:" is absent (raw "", MISSING_FIELD or the NONE of
\* the consistency rule), also when a line carries a longer label that ends
\* with the field's label ("Rechts Mittellappen:", "XMittellappen:").
C12_ExactLabelOnly ==
    \A i \in Processed :
        \A f \in Fields :
            LabelledLines(reports[i].report_body, f) = {} =>
                /\ results[i].input_values[f] = PyStr(<<>>)
                /\ \/ results[i].evaluated_values[f] = MISSING_FIELD
                   \/ f \in OcclusionFields /\ results[i].evaluated_values[f] = NoneVariant(f)

-----------------------------------------------------------------------------
(* Properties of a batch *)

\* A raw text that field f decodes to a typed value.
ValidRaw(f) ==
    CASE f = "ecg_sync" -> <<"Ja">>
      [] f = "density_tr_pulmonalis" -> <<"1", "2", "0", " ", "H", "U">>
      [] f = "artefact_score" -> <<"1">>
      [] f = "lae_presence" -> <<"Ja">>
      [] f \in MainBranchFields -> <<"Total okkludiert">>
      [] f \in LobeFields -> <<"Segmentarterie(n)">>
      [] f = "clot_burden_score" -> <<"1", "0">>
      [] f = "perfusion_deficit" -> <<"Keine">>
      [] f = "rv_lv_quotient" -> <<"<1">>

\* The report with the lines labelled f taken out and a first line added on
\* which f decodes successfully.
WithDecoded(body, f) ==
    JoinLines(<<Line(Label(f), ValidRaw(f))>>
                \o SelectSeq(Split(body, "\n"),
                             LAMBDA l : ~StartsWith(l, Label(f) \o <<":">>)))

\* C14 as stated: no report makes extract stop, every report of the batch gets
\* its result, and a field f that decodes to MISSING_FIELD or INVALID_VALUE leaves
\* the other 13 evaluated values as they are in the report in which f decodes
\* successfully (occlusion fields apart when in one of the two reports no
\* occlusion label is found).
C14_FailureIsolation ==
    /\ pc # "raised"
    /\ pc # "extract_from_reports" => Len(results) = Len(reports)
    /\ \A i \in Processed :
          \A f \in Fields :
              results[i].evaluated_values[f] \in ErrorCode =>
                  LET body == reports[i].report_body
                      other == extract_from_report(WithDecoded(body, f), reports[i].study_id)
                  IN  \A g \in Fields \ {f} :
                          \/ /\ g \in OcclusionFields
                             /\ \/ FoundOcclusionLabels(body) = {}
                                \/ FoundOcclusionLabels(WithDecoded(body, f)) = {}
                          \/ results[i].evaluated_values[g] = other.evaluated_values[g]

\* extract is in its loop with k of the n reports evaluated, 0 < k < n: the
\* states an interruption between two reports leaves behind.
Interruptible ==
    /\ pc = "extract_from_reports"
    /\ 0 < Len(results)
    /\ Len(results) < Len(reports)

\* C15 as stated: when extract is interrupted after k of n reports (0 < k < n),
\* the results of those k reports are in the output tables.
C15_PartialResultsInTables ==
    Interruptible =>
        /\ input_values_file # NotWritten
        /\ evaluated_values_file # NotWritten
        /\ Len(Rows(input_values_file)) >= Len(results)
        /\ Len(Rows(evaluated_values_file)) >= Len(results)

\* C15 amended: when extract is interrupted after k of n reports (0 < k < n),
\* the k results are only in the result list held in memory and neither output
\* table has been written; a table is written only once all n reports are
\* evaluated, and then it holds all n.
C15_TablesWrittenAfterAllReports ==
    /\ Interruptible =>
          input_values_file = NotWritten /\ evaluated_values_file = NotWritten
    /\ \A file \in {input_values_file, evaluated_values_file} :
          file # NotWritten =>
              Len(results) = Len(reports) /\ Len(Rows(file)) = Len(reports)

\* One of two reports evaluated, no table written.
C15_Witness ==
    /\ Interruptible
    /\ Len(reports) = 2
    /\ Len(results) = 1
    /\ input_values_file = NotWritten

\* What the extraction of report i gives.
Extracted(i) == extract_from_report(reports[i].report_body, reports[i].study_id)

\* The row carries the study_id of report i and, per field, the given values.
RowOfReport(row, i, values) ==
    /\ DOMAIN row = {"study_id"} \cup Fields
    /\ row["study_id"] = reports[i].study_id
    /\ \A f \in Fields : row[f] = values[f]

\* C16: during the loop the result list has one entry per evaluated report, in
\* input order; once extract has completed on n reports, each of the two tables
\* has exactly n records, the i-th with the study_id and the values of the i-th
\* report, also when reports share a study_id.
C16_OneRecordPerReport ==
    /\ Len(results) <= Len(reports)
    /\ \A i \in Processed : results[i].study_id = reports[i].study_id
    /\ input_values_file # NotWritten =>
          /\ Len(Rows(input_values_file)) = Len(reports)
          /\ \A i \in 1..Len(reports) :
                RowOfReport(Rows(input_values_file)[i], i, Extracted(i).input_values)
    /\ evaluated_values_file # NotWritten =>
          /\ Len(Rows(evaluated_values_file)) = Len(reports)
          /\ \A i \in 1..Len(reports) :
                RowOfReport(Rows(evaluated_values_file)[i], i,
                            Extracted(i).evaluated_values)
    /\ pc = "done" => input_values_file # NotWritten /\ evaluated_values_file # NotWritten

\* extract completed on two different reports with the same study_id: two
\* records in each table.
C16_Witness ==
    /\ pc = "done"
    /\ Len(reports) = 2
    /\ reports[1].study_id = reports[2].study_id
    /\ reports[1].report_body # reports[2].report_body
    /\ Len(Rows(input_values_file)) = 2
    /\ Len(Rows(evaluated_values_file)) = 2

-----------------------------------------------------------------------------
(* Properties of InputValues and of the consistency rule *)

\* C17: each of the 14 entries of InputValues is the text the field locator
\* returns for the field's label, and "" when the locator returns None; neither
\* the classification nor the consistency rule changes it.
C17_RawTextKept ==
    \A i \in Processed :
        \A f \in Fields :
            LET raw == get_field_value(reports[i].report_body, Label(f))
            IN  results[i].input_values[f] = IF raw = None THEN PyStr(<<>>) ELSE raw

\* A report with the line "EKG-Synchronisation: -" and no occlusion label: the
\* raw "-" is kept, the occlusion entries are "" while their values became NONE.
C17_Witness ==
    /\ Len(results) = 1
    /\ results[1].input_values["ecg_sync"] = PyStr(<<"-">>)
    /\ results[1].evaluated_values["ecg_sync"] = PyBool(FALSE)
    /\ \A f \in OcclusionFields :
          /\ results[1].input_values[f] = PyStr(<<>>)
          /\ results[1].evaluated_values[f] = NoneVariant(f)

\* C18: when at least one of the 7 occlusion labels is found, all 14 evaluated
\* values are the values of the individual classifiers, INVALID_VALUE and
\* MISSING_FIELD of the group included; in every report the 7 values outside the
\* group are the values of the individual classifiers.
C18_RuleChangesNothingElse ==
    \A i \in Processed :
        LET individual == ClassifyAll(reports[i].report_body)
            ev == results[i].evaluated_values
        IN  /\ FoundOcclusionLabels(reports[i].report_body) # {} =>
                  \A f \in OcclusionFields : ev[f] = individual[f][2]
            /\ \A f \in Fields \ OcclusionFields : ev[f] = individual[f][2]

\* A report whose only occlusion line carries a phrase of the other lexicon:
\* INVALID_VALUE for it and MISSING_FIELD for the six others, both kept.
C18_Witness ==
    /\ Len(results) = 1
    /\ FoundOcclusionLabels(reports[1].report_body) = {"lae_main_branch_right"}
    /\ results[1].evaluated_values["lae_main_branch_right"] = INVALID_VALUE
    /\ \A f \in OcclusionFields \ {"lae_main_branch_right"} :
          results[1].evaluated_values[f] = MISSING_FIELD

-----------------------------------------------------------------------------
(* Properties of the error codes *)

\* C19: an evaluated value of MISSING_FIELD implies that no line of the report
\* contains "<label>:", INVALID_VALUE implies that some line does; and a field
\* outside the occlusion group whose label is in no line is MISSING_FIELD.
C19_ErrorTaxonomy ==
    \A i \in Processed :
        \A f \in Fields :
            LET ev == results[i].evaluated_values[f]
                found == LabelFound(reports[i].report_body, f)
            IN  /\ ev = MISSING_FIELD => ~found
                /\ ev = INVALID_VALUE => found
                /\ f \notin OcclusionFields /\ ~found => ev = MISSING_FIELD

\* A report with the line "Nachweis einer Lungenarterienembolie: -": INVALID_VALUE
\* for the found label, MISSING_FIELD for the absent clot burden score.
C19_Witness ==
    /\ Len(results) = 1
    /\ LabelFound(reports[1].report_body, "lae_presence")
    /\ results[1].input_values["lae_presence"] = PyStr(<<"-">>)
    /\ results[1].evaluated_values["lae_presence"] = INVALID_VALUE
    /\ ~LabelFound(reports[1].report_body, "clot_burden_score")
    /\ results[1].evaluated_values["clot_burden_score"] = MISSING_FIELD

\* What a found label with raw text "" or "-" decodes to.
NeutralValue(f) ==
    CASE f = "ecg_sync" -> PyBool(FALSE)
      [] f \in {"density_tr_pulmonalis", "artefact_score", "perfusion_deficit",
                "rv_lv_quotient"} -> None
      [] f \in MainBranchFields -> Member("MainBranchOcclusion", "NONE")
      [] f \in LobeFields -> Member("LobeOcclusion", "NONE")
      [] f \in {"lae_presence", "clot_burden_score"} -> INVALID_VALUE

\* C20: a found label with raw text "" or "-" decodes to false for ecg_sync, to
\* null for density, artefact_score, perfusion_deficit and rv_lv_quotient, to
\* NONE for the main branches and the lobes, and to INVALID_VALUE for
\* lae_presence and the reported clot_burden_score, which have no neutral input.
C20_NeutralInputs ==
    \A i \in Processed :
        \A f \in Fields :
            /\ LabelFound(reports[i].report_body, f)
            /\ results[i].input_values[f] \in {PyStr(<<>>), PyStr(<<"-">>)}
            => results[i].evaluated_values[f] = NeutralValue(f)

\* "RV/LV-Quotient: -" classified: null.
C20_Witness ==
    /\ Len(results) = 1
    /\ LabelFound(reports[1].report_body, "rv_lv_quotient")
    /\ results[1].input_values["rv_lv_quotient"] = PyStr(<<"-">>)
    /\ results[1].evaluated_values["rv_lv_quotient"] = None

-----------------------------------------------------------------------------
(* Properties of the lexicons *)

\* C21: a found main-branch label decodes "Total okkludiert" to TOTAL, "Partiell
\* okkludiert" to PARTIAL and every other text that is not "" or "-" (the lobe
\* phrases too) to INVALID_VALUE; a found lobe label decodes "Lappenarterie total
\* okkludiert", "Lappenarterie partiell okkludiert", "Segmentarterie(n)" and
\* "Subsegmentarterie(n)" to TOTAL, PARTIAL, SEGMENTAL and SUBSEGMENTAL and every
\* other text that is not "" or "-" (the main-branch phrases too) to INVALID_VALUE.
C21_OcclusionLexicon ==
    \A i \in Processed :
        \A f \in OcclusionFields :
            LET raw == results[i].input_values[f].s
                ev == results[i].evaluated_values[f]
            IN  LabelFound(reports[i].report_body, f) /\ raw \notin {<<>>, <<"-">>} =>
                    IF f \in MainBranchFields
                    THEN CASE raw = <<"Total okkludiert">> ->
                                ev = Member("MainBranchOcclusion", "TOTAL")
                           [] raw = <<"Partiell okkludiert">> ->
                                ev = Member("MainBranchOcclusion", "PARTIAL")
                           [] OTHER -> ev = INVALID_VALUE
                    ELSE CASE raw = <<"Lappenarterie total okkludiert">> ->
                                ev = Member("LobeOcclusion", "TOTAL")
                           [] raw = <<"Lappenarterie partiell okkludiert">> ->
                                ev = Member("LobeOcclusion", "PARTIAL")
                           [] raw = <<"Segmentarterie(n)">> ->
                                ev = Member("LobeOcclusion", "SEGMENTAL")
                           [] raw = <<"Subsegmentarterie(n)">> ->
                                ev = Member("LobeOcclusion", "SUBSEGMENTAL")
                           [] OTHER -> ev = INVALID_VALUE

\* A main-branch label with a lobe phrase: INVALID_VALUE.
C21_Witness ==
    /\ Len(results) = 1
    /\ LabelFound(reports[1].report_body, "lae_main_branch_left")
    /\ results[1].input_values["lae_main_branch_left"]
          = PyStr(<<"Lappenarterie total okkludiert">>)
    /\ results[1].evaluated_values["lae_main_branch_left"] = INVALID_VALUE

\* C22: lae_presence decodes "Verdacht auf Lungenarterienembolie" to SUSPECTED
\* and the shorter "Verdacht auf" to INVALID_VALUE, "Ja", "Nein" and "Nicht
\* beurteilbar" to YES, NO and NOT_ASSESSABLE, and never decodes to null.
C22_LaePresenceLexicon ==
    \A i \in Processed :
        LET raw == results[i].input_values["lae_presence"].s
            ev == results[i].evaluated_values["lae_presence"]
        IN  /\ ev # None
            /\ LabelFound(reports[i].report_body, "lae_presence") =>
                  CASE raw = <<"Verdacht auf", " ", "Lungenarterienembolie">> ->
                          ev = Member("LaePresence", "SUSPECTED")
                    [] raw = <<"Verdacht auf">> -> ev = INVALID_VALUE
                    [] raw = <<"Ja">> -> ev = Member("LaePresence", "YES")
                    [] raw = <<"Nein">> -> ev = Member("LaePresence", "NO")
                    [] raw = <<"Nicht beurteilbar">> -> ev = Member("LaePresence", "NOT_ASSESSABLE")
                    [] OTHER -> TRUE

\* "Nachweis einer Lungenarterienembolie: Verdacht auf" classified: INVALID_VALUE.
C22_Witness ==
    /\ Len(results) = 1
    /\ LabelFound(reports[1].report_body, "lae_presence")
    /\ results[1].input_values["lae_presence"] = PyStr(<<"Verdacht auf">>)
    /\ results[1].evaluated_values["lae_presence"] = INVALID_VALUE

-----------------------------------------------------------------------------
(* Properties across the reports of a batch *)

\* C23: the InputValues and EvaluatedValues of the report at position i are
\* those its body alone gives, whatever the other reports of the batch and their
\* order are; two reports of a batch with the same body have the same values.
C23_NoSharedState ==
    /\ \A i \in Processed :
          /\ results[i].input_values = Extracted(i).input_values
          /\ results[i].evaluated_values = Extracted(i).evaluated_values
    /\ \A i, j \in Processed :
          reports[i].report_body = reports[j].report_body =>
              /\ results[i].input_values = results[j].input_values
              /\ results[i].evaluated_values = results[j].evaluated_values

\* Two reports evaluated, the second without the EKG line that the first has:
\* MISSING_FIELD for the second, true for the first.
C23_Witness ==
    /\ Len(results) = 2
    /\ results[1].evaluated_values["ecg_sync"] = PyBool(TRUE)
    /\ ~LabelFound(reports[2].report_body, "ecg_sync")
    /\ results[2].evaluated_values["ecg_sync"] = MISSING_FIELD

-----------------------------------------------------------------------------
(* Properties of the validator *)

\* The position of the last report with the study_id that the validator's loop
\* has taken.
LastReportOf(study_id) == Max({i \in 1..validated : reports[i].study_id = study_id})

\* The error class of an evaluated value of the rules engine.
ErrorClass(ev) ==
    IF ev = MISSING_FIELD THEN "MISSING_FIELD"
    ELSE IF ev = INVALID_VALUE THEN "INVALID_VALUE"
    ELSE "NO_ERROR"

\* C24: for every report, the validator's code of each of the 7 occlusion fields
\* is NO_ERROR exactly when the rules engine evaluates the field to an occlusion
\* value, MISSING_FIELD exactly when to MISSING_FIELD and INVALID_VALUE exactly
\* when to INVALID_VALUE; with no occlusion label found both report no error.
C24_ValidatorAgreesOnOcclusions ==
    \A k \in 1..Len(validations) :
        LET report == reports[LastReportOf(validations[k].key)]
            ev == extract_from_report(report.report_body, report.study_id).evaluated_values
        IN  \A f \in OcclusionFields :
                /\ validations[k].value[f] \in ValidatorErrorCode
                /\ validations[k].value[f].name = ErrorClass(ev[f])
                /\ ErrorClass(ev[f]) = "NO_ERROR" => ev[f] \in MainBranchOcclusion \cup LobeOcclusion

\* A validated report with a valid, an invalid and a missing occlusion field.
C24_Witness ==
    /\ Len(validations) = 1
    /\ validations[1].value["lae_main_branch_right"].name = "INVALID_VALUE"
    /\ validations[1].value["lae_upper_lobe_right"].name = "NO_ERROR"
    /\ LabelFound(reports[1].report_body, "lae_upper_lobe_right")
    /\ validations[1].value["lae_middle_lobe_right"].name = "MISSING_FIELD"

-----------------------------------------------------------------------------
(* Properties of absent and empty occlusion lines *)

\* C25: an occlusion label that is absent and one that is present with an empty
\* value both have the InputValues entry "".  With no occlusion label in the
\* report and with all 7 present and empty, all 7 evaluated values are NONE, so
\* the two reports have identical occlusion entries; when some occlusion label is
\* present, an absent label evaluates to MISSING_FIELD and an empty one to NONE.
C25_AbsentAndEmpty ==
    \A i \in Processed :
        LET found == FoundOcclusionLabels(reports[i].report_body)
        IN  \A f \in OcclusionFields :
                /\ results[i].input_values[f] = PyStr(<<>>)
                /\ found = {} \/ f \in found => results[i].evaluated_values[f] = NoneVariant(f)
                /\ found # {} /\ f \notin found =>
                      results[i].evaluated_values[f] = MISSING_FIELD

\* All 7 occlusion labels present with empty values: "" and NONE throughout.
C25_Witness ==
    /\ Len(results) = 1
    /\ FoundOcclusionLabels(reports[1].report_body) = OcclusionFields
    /\ \A f \in OcclusionFields :
          /\ results[1].input_values[f] = PyStr(<<>>)
          /\ results[1].evaluated_values[f] = NoneVariant(f)

-----------------------------------------------------------------------------
(* Monotonicity of the clot-burden score *)

\* NONE < SUBSEGMENTAL < SEGMENTAL < PARTIAL < TOTAL
Severity(value) ==
    CASE value.name = "NONE" -> 0
      [] value.name = "SUBSEGMENTAL" -> 1
      [] value.name = "SEGMENTAL" -> 2
      [] value.name = "PARTIAL" -> 3
      [] value.name = "TOTAL" -> 4

\* The occlusion values of a written row, as calc_cbs_score reads them.
FindingsOf(row) == [f \in OcclusionFields |-> row[f]]

\* C26: with the other 6 sites as in a written row, the score of the row is
\* never below the score of the same findings with one lobe at a lower
\* severity and never above the score with that lobe at a higher severity;
\* and the written score is 0 exactly when all 7 sites are NONE.
C26_MonotoneInLobeSeverity ==
    \A row \in ScoredRows :
        LET score == row["clot_burden_score_calc"]
        IN  /\ \A lobe \in LobeFields : \A value \in LobeOcclusion :
                  LET other == calc_cbs_score([FindingsOf(row) EXCEPT ![lobe] = value])
                  IN  /\ Severity(value) <= Severity(row[lobe]) =>
                            Tenths(other) <= Tenths(score)
                      /\ Severity(value) >= Severity(row[lobe]) =>
                            Tenths(other) >= Tenths(score)
            /\ score = Float(0, 1) <=> \A f \in OcclusionFields : row[f].name = "NONE"

\* A scored row whose only occlusion is a subsegmental right middle lobe: its
\* score is 0.5, above the 0 of no occlusion and below the 1 of a segmental one.
C26_Witness ==
    \E row \in ScoredRows :
        /\ row["lae_middle_lobe_right"].name = "SUBSEGMENTAL"
        /\ \A f \in OcclusionFields \ {"lae_middle_lobe_right"} : row[f].name = "NONE"
        /\ row["clot_burden_score_calc"] = Float(5, 10)
        /\ calc_cbs_score([FindingsOf(row) EXCEPT
                 !["lae_middle_lobe_right"] = Member("LobeOcclusion", "SEGMENTAL")]) = Float(1, 1)

-----------------------------------------------------------------------------
(* Agreement of the two scorers *)

\* C30: once both exports have written their table for the same findings, the
\* two tables hold the same score for each study, whatever the 7 occlusion
\* values are.
C30_ScorersAgree ==
    extracted_data_file # NotWritten /\ analyzer_extracted_data_file # NotWritten =>
        /\ Len(extracted_data_file.rows) = Len(analyzer_extracted_data_file.rows)
        /\ \A i \in 1..Len(extracted_data_file.rows) :
              LET row == extracted_data_file.rows[i]
                  analyzed == analyzer_extracted_data_file.rows[i]
              IN  /\ \A f \in OcclusionFields \cup {"study_id"} : analyzed[f] = row[f]
                  /\ analyzed["clot_burden_score_calc"] = row["clot_burden_score_calc"]

\* Both tables written for findings with a subsegmental right middle lobe, a
\* segmental right upper lobe and a partial left main branch: 12.0 in both.
C30_Witness ==
    /\ extracted_data_file # NotWritten
    /\ analyzer_extracted_data_file # NotWritten
    /\ LET row == extracted_data_file.rows[1]
           analyzed == analyzer_extracted_data_file.rows[1]
       IN  /\ row["lae_main_branch_left"].name = "PARTIAL"
           /\ row["lae_main_branch_right"].name = "NONE"
           /\ row["lae_upper_lobe_right"].name = "SEGMENTAL"
           /\ row["lae_middle_lobe_right"].name = "SUBSEGMENTAL"
           /\ row["lae_lower_lobe_right"].name = "NONE"
           /\ row["clot_burden_score_calc"] = Float(12, 1)
           /\ analyzed["clot_burden_score_calc"] = Float(12, 1)

-----------------------------------------------------------------------------
(* Properties of the batch selection *)

\* The values given with --study-id.
GivenIds == IF args.study_id = None THEN {}
            ELSE {args.study_id.items[k] : k \in 1..Len(args.study_id.items)}

\* The k-th smallest member of a set of row numbers.
NthOf(S, k) == CHOOSE i \in S : Cardinality({j \in S : j < i}) = k - 1

\* The batch is the rows of the table with the numbers in S, in table order.
BatchIsRows(S) ==
    /\ Len(reports) = Cardinality(S)
    /\ \A k \in 1..Len(reports) :
          /\ reports[k].study_id = df[NthOf(S, k)].study_id
          /\ reports[k].report_body = df[NthOf(S, k)].report

-----------------------------------------------------------------------------
(* Properties of workflow.main *)

\* The positions of workflow.main after InputValidator.validate has returned.
AfterValidate ==
    {"validated", "llm_extract_from_reports", "raised", "export_extracted_data", "done"}

\* The validation table holds one row per entry of the validations, in order.
ValidationTableWritten ==
    /\ validations_file # NotWritten
    /\ validated = Len(reports)
    /\ Len(Rows(validations_file)) = Len(validations)
    /\ \A k \in 1..Len(validations) :
          /\ Rows(validations_file)[k]["study_id"] = validations[k].key
          /\ \A f \in Fields : Rows(validations_file)[k][f] = validations[k].value[f]

\* C28: (a) no completion is requested before the validation table is written,
\* and from the return of validate on the table stays as validate wrote it,
\* also after a failed LLM call; (b) the extracted-data file exists only when
\* every report of the batch has been extracted, and holds one row per report;
\* (c) after a failed call (an exception of the client, no parsed data, no
\* usage) there is no extracted-data file and the failed call is the last one
\* made: every earlier call gave a result and no later report is asked for.
C28_ValidationThenAllOrNothing ==
    /\ llm_calls > 0 => validations_file # NotWritten
    /\ pc \in AfterValidate => ValidationTableWritten
    /\ llm_calls <= Len(reports)
    /\ extracted_data_file # NotWritten =>
          /\ Len(llm_results) = Len(reports)
          /\ Len(Rows(extracted_data_file)) = Len(reports)
          /\ \A i \in 1..Len(reports) :
                Rows(extracted_data_file)[i]["study_id"] = reports[i].study_id
    /\ pc = "raised" =>
          /\ extracted_data_file = NotWritten
          /\ llm_calls >= 1
          /\ Len(llm_results) = llm_calls - 1
    /\ pc # "raised" => Len(llm_results) = llm_calls
    /\ pc = "done" => extracted_data_file # NotWritten

\* The first call of a batch of two reports has failed: no result, no second
\* call, no extracted-data file, and the validation table with its two rows.
C28_Witness ==
    /\ pc = "raised"
    /\ Len(reports) = 2
    /\ llm_calls = 1
    /\ llm_results = <<>>
    /\ extracted_data_file = NotWritten
    /\ validations_file # NotWritten
    /\ Len(Rows(validations_file)) = 2

-----------------------------------------------------------------------------
(* Properties of the validations keyed by study_id *)

\* The study ids of the first n reports of the batch.
StudyIdsOf(n) == {reports[i].study_id : i \in 1..n}

\* C29: after the validator's loop has taken any number of reports, the
\* validations hold exactly one entry per distinct study_id among them, and the
\* entry of a study_id is the validation of the last report taken with that
\* study_id; the exported table has one row per distinct study_id of the batch,
\* so never more rows than the batch has reports and fewer when a study_id
\* occurs more than once.
C29_ValidationsKeyedByStudyId ==
    /\ Len(validations) = Cardinality(StudyIdsOf(validated))
    /\ \A id \in StudyIdsOf(validated) : \E k \in 1..Len(validations) : validations[k].key = id
    /\ \A k \in 1..Len(validations) :
          LET last == reports[LastReportOf(validations[k].key)]
          IN  validations[k].value = validate_report(last.report_body, last.study_id)
    /\ validations_file # NotWritten =>
          /\ Len(Rows(validations_file)) = Cardinality(StudyIdsOf(Len(reports)))
          /\ Len(Rows(validations_file)) <= Len(reports)
          /\ (\E i, j \in 1..Len(reports) : i < j /\ reports[i].study_id = reports[j].study_id)
                => Len(Rows(validations_file)) < Len(reports)
          /\ \A k \in 1..Len(validations) :
                \A f \in Fields : Rows(validations_file)[k][f] = validations[k].value[f]

\* Two reports with the study_id S1, the first with a valid and the second
\* with an invalid EKG line: the table has the one row of the second report.
C29_Witness ==
    /\ Len(reports) = 2
    /\ reports[1].study_id = reports[2].study_id
    /\ reports[1].report_body = Line(Label("ecg_sync"), <<"Ja">>)
    /\ reports[2].report_body = Line(Label("ecg_sync"), <<"Vielleicht">>)
    /\ validations_file # NotWritten
    /\ Len(Rows(validations_file)) = 1
    /\ Rows(validations_file)[1]["ecg_sync"].name = "INVALID_VALUE"

====
